---- MODULE Spec2Model ----
(***************************************************************************)
(* A model of the api-tester MCP server (src/index.js): the CallTool       *)
(* request handler with its five HTTP tools, the response normalisers,     *)
(* the JSON / CSV serialisers and the error log.                           *)
(*                                                                         *)
(* JavaScript values are tagged records, JavaScript strings are TLA+       *)
(* strings (TLC evaluates Len, \o and SubSeq on them), a thrown exception  *)
(* is a completion record with threw = TRUE.                               *)
(***************************************************************************)
EXTENDS Integers, Sequences, FiniteSets, TLC

VARIABLES
    slots,      \* the invocations of this run
    universe,   \* "rich": one invocation, every input; "compact": overlapping
    started,    \* number of invocations dispatched so far
    pc,         \* per invocation: "idle", "awaiting" (suspended at await), "done"
    req,        \* per invocation: the request (name, arguments)
    call,       \* per invocation: the outbound call handed to the transport
    outcome,    \* per invocation: what the transport and the log sink did
    result,     \* per invocation: the canonical result built, or NoResult
    response,   \* per invocation: what the handler returned (or let escape)
    netCalls,   \* per invocation: outbound network calls made
    appended,   \* per invocation: log entries this invocation appended
    logFile,    \* content of logs/api-tester-errors.log, one element per block
    logDir,     \* whether the logs directory exists
    console,    \* lines written with console.error
    probe,      \* a function of the server applied on its own: which, to what
    answer      \* what that application returned or threw

vars == <<slots, universe, started, pc, req, call, outcome, result, response,
          netCalls, appended, logFile, logDir, console, probe, answer>>

----------------------------------------------------------------------------
(* Bounds *)

MaxInv == 2        \* invocations that may overlap in one run
MaxElapsed == 1    \* largest endTime - startTime the transport reports

Inv == 1..MaxInv

----------------------------------------------------------------------------
(* JavaScript values *)

Undefined == [t |-> "undefined"]
Null == [t |-> "null"]
Bool(b) == [t |-> "boolean", v |-> b]
Num(n) == [t |-> "number", v |-> n]
Str(s) == [t |-> "string", v |-> s]
Arr(items) == [t |-> "array", items |-> items]
Obj(keys, vals) == [t |-> "object", keys |-> keys, vals |-> vals]
EmptyObject == Obj(<<>>, <<>>)

\* An object that has no conversion to a primitive value, such as
\* Object.create(null): String(value) of it throws a TypeError
Unconvertible == [t |-> "unconvertible"]

IsNullish(v) == v.t \in {"undefined", "null"}

\* JavaScript truthiness, as used by ||, && and if (...)
Truthy(v) ==
    CASE v.t \in {"undefined", "null"} -> FALSE
      [] v.t = "boolean" -> v.v
      [] v.t = "number" -> v.v # 0
      [] v.t = "nan" -> FALSE
      [] v.t = "string" -> v.v # ""
      [] OTHER -> TRUE

\* typeof v
TypeOf(v) ==
    CASE v.t \in {"null", "array", "object", "response", "unconvertible"} -> "object"
      [] v.t = "nan" -> "number"
      [] OTHER -> v.t

\* obj[key] (also what destructuring reads); undefined when the key is absent
Get(obj, key) ==
    IF obj.t = "object" /\ \E i \in 1..Len(obj.keys) : obj.keys[i] = key
    THEN obj.vals[CHOOSE i \in 1..Len(obj.keys) : obj.keys[i] = key]
    ELSE Undefined

\* a || b
OrElse(a, b) == IF Truthy(a) THEN a ELSE b

\* whether a reference is null or undefined, so that reading a property of it
\* throws a TypeError
NoObject(x) == x \in {Null, Undefined}

\* the field of a canonical result (a TLA+ function from field names to values)
Field(r, k) == IF k \in DOMAIN r THEN r[k] ELSE Undefined

----------------------------------------------------------------------------
(* Completions: normal return or thrown exception *)

Ok(v) == [threw |-> FALSE, value |-> v]
Throw(e) == [threw |-> TRUE, error |-> e]

\* new Error(message): no code, no response
MkError(message) ==
    [message |-> Str(message), code |-> Undefined,
     stack |-> Str("Error: " \o message), response |-> Undefined]

----------------------------------------------------------------------------
(* Strings *)

NL == "\n"
Quote == "\""
LowerAlpha == "abcdefghijklmnopqrstuvwxyz"
UpperAlpha == "ABCDEFGHIJKLMNOPQRSTUVWXYZ"

CharAt(s, i) == SubSeq(s, i, i)

\* s.includes(c) for a one-character c
Includes(s, c) == \E i \in 1..Len(s) : CharAt(s, i) = c

\* text.includes(part)
Contains(text, part) ==
    \E k \in 1..(Len(text) - Len(part) + 1) :
        SubSeq(text, k, k + Len(part) - 1) = part

\* The place in a text where a conversion to string threw: the function that
\* made the conversion throws when the text it builds holds this mark
Thrown == "<TypeError>"

ConversionThrew(text) == Contains(text, Thrown)

\* The TypeError of a conversion that threw
ConversionError ==
    [message |-> [t |-> "string", v |-> "Cannot convert object to primitive value"],
     code |-> [t |-> "undefined"],
     stack |-> [t |-> "string", v |-> "TypeError: Cannot convert object to primitive value"],
     response |-> [t |-> "undefined"]]

LowerChar(c) ==
    IF Includes(UpperAlpha, c)
    THEN CharAt(LowerAlpha, CHOOSE i \in 1..Len(UpperAlpha) : CharAt(UpperAlpha, i) = c)
    ELSE c

UpperChar(c) ==
    IF Includes(LowerAlpha, c)
    THEN CharAt(UpperAlpha, CHOOSE i \in 1..Len(LowerAlpha) : CharAt(LowerAlpha, i) = c)
    ELSE c

RECURSIVE toLowerCase(_)
toLowerCase(s) ==
    IF s = "" THEN "" ELSE LowerChar(Head(s)) \o toLowerCase(Tail(s))

RECURSIVE toUpperCase(_)
toUpperCase(s) ==
    IF s = "" THEN "" ELSE UpperChar(Head(s)) \o toUpperCase(Tail(s))

\* s.replace(/"/g, '""')
RECURSIVE DoubleQuotes(_)
DoubleQuotes(s) ==
    IF s = "" THEN ""
    ELSE (IF Head(s) = Quote THEN Quote \o Quote ELSE Head(s)) \o DoubleQuotes(Tail(s))

\* parts.join(sep)
RECURSIVE Join(_, _)
Join(parts, sep) ==
    IF Len(parts) = 0 THEN ""
    ELSE IF Len(parts) = 1 THEN parts[1]
    ELSE parts[1] \o sep \o Join(Tail(parts), sep)

\* c.repeat(n)
RECURSIVE Repeat(_, _)
Repeat(c, n) == IF n = 0 THEN "" ELSE c \o Repeat(c, n - 1)

\* String(value), also what a template literal does with ${value}
RECURSIVE ToStr(_)
ToStr(v) ==
    CASE v.t = "undefined" -> "undefined"
      [] v.t = "null" -> "null"
      [] v.t = "boolean" -> IF v.v THEN "true" ELSE "false"
      [] v.t = "number" -> ToString(v.v)
      [] v.t = "nan" -> "NaN"
      [] v.t = "string" -> v.v
      [] v.t = "unconvertible" -> Thrown
      [] v.t = "array" ->
            Join([i \in 1..Len(v.items) |->
                    IF IsNullish(v.items[i]) THEN "" ELSE ToStr(v.items[i])], ",")
      [] OTHER -> "[object Object]"

\* Object.keys(v) of an object or an array
KeysOf(v) ==
    CASE v.t = "object" -> v.keys
      [] v.t = "array" -> [i \in 1..Len(v.items) |-> ToString(i - 1)]
      [] OTHER -> <<>>

\* v[key] of an object or an array
Lookup(v, key) ==
    CASE v.t = "object" -> Get(v, key)
      [] v.t = "array" ->
            IF \E i \in 1..Len(v.items) : ToString(i - 1) = key
            THEN v.items[CHOOSE i \in 1..Len(v.items) : ToString(i - 1) = key]
            ELSE Undefined
      [] OTHER -> Undefined

\* The TypeError of reading a property of null or undefined
ReadError(x, property) ==
    MkError("Cannot read properties of " \o ToStr(x) \o " (reading '"
              \o property \o "')")

----------------------------------------------------------------------------
(* ResponseNormalizer *)

NaN == [t |-> "nan"]

\* a - b on JavaScript values
Minus(a, b) ==
    IF a.t = "number" /\ b.t = "number" THEN Num(a.v - b.v) ELSE NaN

NoResult == [absent |-> TRUE]

formatApiResponse(resp, method, url, requestData) ==
    IF NoObject(resp) THEN Throw(ReadError(resp, "status"))
    ELSE IF NoObject(resp.config) THEN Throw(ReadError(resp.config, "metadata"))
    ELSE LET meta == resp.config.metadata
             base == [success |-> Bool(TRUE),
                      method |-> Str(method),
                      url |-> url,
                      status |-> resp.status,
                      statusText |-> resp.statusText,
                      headers |-> resp.headers,
                      data |-> resp.data,
                      responseTime |->
                          OrElse(Minus(Field(meta, "endTime"), Field(meta, "startTime")),
                                 Str("N/A"))]
         IN  Ok(IF Truthy(requestData) THEN [requestData |-> requestData] @@ base
                ELSE base)

\* A variant that copies the response fields whether or not there is a response
formatErrorResponseAlwaysStatus(error, method, url, requestData) ==
    IF NoObject(error) THEN Throw(ReadError(error, "message"))
    ELSE LET r == error.response
             base == [success |-> Bool(FALSE),
                      method |-> Str(method),
                      url |-> url,
                      error |-> error.message,
                      code |-> OrElse(error.code, Str("UNKNOWN_ERROR")),
                      status |-> IF Truthy(r) THEN r.status ELSE Undefined,
                      statusText |-> IF Truthy(r) THEN r.statusText ELSE Undefined,
                      headers |-> IF Truthy(r) THEN r.headers ELSE Undefined,
                      data |-> IF Truthy(r) THEN r.data ELSE Undefined]
         IN  Ok(IF Truthy(requestData) THEN [requestData |-> requestData] @@ base
                ELSE base)

\* A variant that reports the N/A sentinel as the responseTime of a failure
formatErrorResponseWithTime(error, method, url, requestData) ==
    IF NoObject(error) THEN Throw(ReadError(error, "message"))
    ELSE LET base == [success |-> Bool(FALSE),
                      method |-> Str(method),
                      url |-> url,
                      error |-> error.message,
                      code |-> OrElse(error.code, Str("UNKNOWN_ERROR")),
                      responseTime |-> Str("N/A")]
             withResponse ==
                 IF Truthy(error.response)
                 THEN [status |-> error.response.status,
                       statusText |-> error.response.statusText,
                       headers |-> error.response.headers,
                       data |-> error.response.data] @@ base
                 ELSE base
         IN  Ok(IF Truthy(requestData) THEN [requestData |-> requestData] @@ withResponse
                ELSE withResponse)

formatErrorResponse(error, method, url, requestData) ==
    IF NoObject(error) THEN Throw(ReadError(error, "message"))
    ELSE LET base == [success |-> Bool(FALSE),
                      method |-> Str(method),
                      url |-> url,
                      error |-> error.message,
                      code |-> OrElse(error.code, Str("UNKNOWN_ERROR"))]
             withResponse ==
                 IF Truthy(error.response)
                 THEN [status |-> error.response.status,
                       statusText |-> error.response.statusText,
                       headers |-> error.response.headers,
                       data |-> error.response.data] @@ base
                 ELSE base
         IN  Ok(IF Truthy(requestData) THEN [requestData |-> requestData] @@ withResponse
                ELSE withResponse)

----------------------------------------------------------------------------
(* CsvProjector *)

\* A variant that wraps the value in quotes without doubling the quotes inside
escapeCsvValueNoDoubling(value) ==
    IF IsNullish(value) THEN ""
    ELSE LET stringValue == ToStr(value)
         IN  IF Includes(stringValue, ",") \/ Includes(stringValue, NL)
                \/ Includes(stringValue, Quote)
             THEN Quote \o stringValue \o Quote
             ELSE stringValue

escapeCsvValue(value) ==
    IF IsNullish(value) THEN ""
    ELSE LET stringValue == ToStr(value)
         IN  IF Includes(stringValue, ",") \/ Includes(stringValue, NL)
                \/ Includes(stringValue, Quote)
             THEN Quote \o DoubleQuotes(stringValue) \o Quote
             ELSE stringValue

\* typeof obj === 'object' && obj !== null
IsObjectLike(v) == v.t \in {"object", "array", "response", "unconvertible"}

\* the Set of header keys in first-seen order: keys appended unless already there
RECURSIVE AddKeys(_, _)
AddKeys(headers, keys) ==
    IF Len(keys) = 0 THEN headers
    ELSE AddKeys(IF \E i \in 1..Len(headers) : headers[i] = keys[1]
                 THEN headers ELSE Append(headers, keys[1]),
                 Tail(keys))

\* A variant that takes the header keys from the first element only
CollectHeadersFirstElement(headers, items) ==
    IF Len(items) = 0 THEN headers
    ELSE IF IsObjectLike(items[1]) THEN AddKeys(headers, KeysOf(items[1]))
    ELSE headers

RECURSIVE CollectHeaders(_, _)
CollectHeaders(headers, items) ==
    IF Len(items) = 0 THEN headers
    ELSE CollectHeaders(IF IsObjectLike(items[1])
                        THEN AddKeys(headers, KeysOf(items[1])) ELSE headers,
                        Tail(items))

\* A variant whose rows hold the cells of the element's own keys only
convertArrayOfObjectsToCsvUnpadded(data) ==
    IF data.t # "array" \/ Len(data.items) = 0 THEN ""
    ELSE LET headerArray == CollectHeaders(<<>>, data.items)
             objects == SelectSeq(data.items, IsObjectLike)
             headerRow == Join([h \in 1..Len(headerArray) |->
                                  escapeCsvValue(Str(headerArray[h]))], ",")
             row(obj) == Join([h \in 1..Len(KeysOf(obj)) |->
                                  escapeCsvValue(Lookup(obj, KeysOf(obj)[h]))], ",")
         IN  IF Len(headerArray) = 0 THEN ""
             ELSE Join(<<headerRow>> \o [r \in 1..Len(objects) |-> row(objects[r])], NL)

convertArrayOfObjectsToCsv(data) ==
    IF data.t # "array" \/ Len(data.items) = 0 THEN ""
    ELSE LET headerArray == CollectHeaders(<<>>, data.items)
             objects == SelectSeq(data.items, IsObjectLike)
             headerRow == Join([h \in 1..Len(headerArray) |->
                                  escapeCsvValue(Str(headerArray[h]))], ",")
             row(obj) == Join([h \in 1..Len(headerArray) |->
                                  escapeCsvValue(Lookup(obj, headerArray[h]))], ",")
         IN  IF Len(headerArray) = 0 THEN ""
             ELSE Join(<<headerRow>> \o [r \in 1..Len(objects) |-> row(objects[r])], NL)

convertObjectToCsv(data) ==
    IF ~IsObjectLike(data) THEN ""
    ELSE LET headers == KeysOf(data)
         IN  IF Len(headers) = 0 THEN ""
             ELSE Join(<<Join([h \in 1..Len(headers) |->
                                 escapeCsvValue(Str(headers[h]))], ","),
                         Join([h \in 1..Len(headers) |->
                                 escapeCsvValue(Lookup(data, headers[h]))], ",")>>, NL)

generateMetadataRow(res) ==
    IF NoObject(res) THEN Throw(ReadError(res, "status"))
    ELSE LET metadata ==
                 <<"status:" \o ToStr(OrElse(Field(res, "status"), Str("N/A"))),
                   "method:" \o ToStr(OrElse(Field(res, "method"), Str("N/A"))),
                   "url:" \o ToStr(OrElse(Field(res, "url"), Str("N/A"))),
                   "time:" \o ToStr(OrElse(Field(res, "responseTime"), Str("N/A")))
                     \o "ms">>
                 \o (IF Truthy(Field(res, "error"))
                     THEN <<"error:" \o ToStr(Field(res, "error"))>> ELSE <<>>)
             text == "# " \o Join(metadata, "|")
         IN  IF ConversionThrew(text) THEN Throw(ConversionError) ELSE Ok(text)

\* The table of the data of a result: from a sequence, from a mapping, or the
\* value table of a scalar; empty when there is no data
DataContent(data) ==
    IF Truthy(data)
    THEN IF data.t = "array" THEN convertArrayOfObjectsToCsv(data)
         ELSE IF TypeOf(data) = "object" THEN convertObjectToCsv(data)
         ELSE "value" \o NL \o escapeCsvValue(data)
    ELSE ""

\* The rows of the error table
ErrorRows(res) ==
    "error,code,message" \o NL
      \o escapeCsvValue(Field(res, "error")) \o ","
      \o escapeCsvValue(OrElse(Field(res, "code"), Str("UNKNOWN_ERROR")))
      \o "," \o escapeCsvValue(Field(res, "error"))

\* The default structure
DefaultRows(res) ==
    "status,method,url" \o NL
      \o escapeCsvValue(Field(res, "status")) \o ","
      \o escapeCsvValue(Field(res, "method")) \o ","
      \o escapeCsvValue(Field(res, "url"))

\* A variant that projects the body data of a failure that carries some, and
\* emits the error table only for a failure without usable body data
toCsvProjectingFailures(res) ==
    LET metadataRow == generateMetadataRow(res)
        content == DataContent(Field(res, "data"))
    IN  IF metadataRow.threw THEN metadataRow
        ELSE IF content # "" THEN Ok(metadataRow.value \o NL \o content)
        ELSE IF Truthy(Field(res, "error"))
        THEN Ok(metadataRow.value \o NL \o ErrorRows(res))
        ELSE Ok(metadataRow.value \o NL \o DefaultRows(res))

\* The body of the try of toCsv
toCsvTry(res) ==
    IF NoObject(res) THEN Throw(ReadError(res, "error"))
    ELSE LET metadataRow == generateMetadataRow(res)
             content == DataContent(Field(res, "data"))
             rows == IF Truthy(Field(res, "error")) THEN ErrorRows(res)
                     ELSE IF content = "" THEN DefaultRows(res)
                     ELSE content
         IN  IF metadataRow.threw THEN metadataRow
             ELSE IF ConversionThrew(rows) THEN Throw(ConversionError)
             ELSE Ok(metadataRow.value \o NL \o rows)

\* toCsv: the try, and the catch that builds the fallback table (and that
\* throws in its turn when generateMetadataRow throws again)
toCsv(res) ==
    LET attempt == toCsvTry(res)
        metadataRow == generateMetadataRow(res)
    IN  IF ~attempt.threw THEN attempt
        ELSE IF metadataRow.threw THEN metadataRow
        ELSE Ok(Join(<<metadataRow.value,
                       "error,code,message",
                       "CSV Conversion Error,CONVERSION_ERROR,"
                         \o escapeCsvValue(attempt.error.message)>>, NL))

----------------------------------------------------------------------------
(* Serialisation *)

\* JSON.stringify(record, null, 2): the text, modelled by the document a JSON
\* parser reads back from it.  A field whose value is undefined is not written,
\* undefined and NaN inside an array are written as null, NaN is written as null.
\* A variant that leaves out the keys of an object whose value is null
JsonValueDroppingNulls(v) ==
    CASE v.t = "array" ->
            Arr([i \in 1..Len(v.items) |->
                   IF v.items[i].t \in {"undefined", "nan"} THEN Null
                   ELSE v.items[i]])
      [] v.t = "object" ->
            LET kept == SelectSeq([i \in 1..Len(v.keys) |-> i],
                                  LAMBDA i : v.vals[i].t \notin {"undefined", "null"})
            IN  Obj([j \in 1..Len(kept) |-> v.keys[kept[j]]],
                    [j \in 1..Len(kept) |-> v.vals[kept[j]]])
      [] v.t = "nan" -> Null
      [] OTHER -> v

RECURSIVE JsonValue(_)
JsonValue(v) ==
    CASE v.t = "array" ->
            Arr([i \in 1..Len(v.items) |->
                   IF v.items[i].t \in {"undefined", "nan"} THEN Null
                   ELSE JsonValue(v.items[i])])
      [] v.t = "object" ->
            LET kept == SelectSeq([i \in 1..Len(v.keys) |-> i],
                                  LAMBDA i : v.vals[i].t # "undefined")
            IN  Obj([j \in 1..Len(kept) |-> v.keys[kept[j]]],
                    [j \in 1..Len(kept) |-> JsonValue(v.vals[kept[j]])])
      [] v.t = "nan" -> Null
      [] OTHER -> v

JsonStringify(record) ==
    [enc |-> "json",
     doc |-> [k \in {f \in DOMAIN record : record[f] # Undefined} |->
                IF "t" \in DOMAIN record[k] THEN JsonValue(record[k]) ELSE record[k]]]

CsvText(text) == [enc |-> "csv", doc |-> text]

\* A variant that selects the CSV projector for every format but "json"
buildContentCsvUnlessJson(res, format) ==
    IF format \notin {Undefined, Str("json")}
    THEN LET text == toCsv(res)
         IN  IF text.threw THEN text
             ELSE Ok([content |-> <<[type |-> "text", text |-> CsvText(text.value)]>>])
    ELSE Ok([content |-> <<[type |-> "text", text |-> JsonStringify(res)]>>])

buildContent(res, format) ==
    LET content(text) ==
            IF text.threw THEN text
            ELSE Ok([content |-> <<[type |-> "text", text |-> CsvText(text.value)]>>])
    IN  IF format = Str("csv") THEN content(toCsv(res))
        ELSE Ok([content |-> <<[type |-> "text", text |-> JsonStringify(res)]>>])

----------------------------------------------------------------------------
(* ErrorLogger *)

SeparatorLength == 80
Separator == Repeat("=", SeparatorLength)

\* new Date().toISOString()
Timestamp == Str("2025-01-01T00:00:00.000Z")

\* What the file system does to one logging attempt
FsOutcomes == {"ok", "mkdir_fails", "append_fails"}

\* JSON.stringify(logEntry, null, 2) + '\n' + '='.repeat(80) + '\n'
LogLine(logEntry) == <<JsonStringify(logEntry), NL, Separator, NL>>

\* A variant without the try/catch around the write: the failure is thrown
WriteLogEntryUnguarded(logEntry, error, sink, fs) ==
    IF ~sink.dir /\ fs = "mkdir_fails"
    THEN [threw |-> TRUE, error |-> MkError("EACCES: mkdir"), wrote |-> <<>>,
          sink |-> sink]
    ELSE IF fs = "append_fails"
    THEN [threw |-> TRUE, error |-> MkError("ENOSPC: write"), wrote |-> <<>>,
          sink |-> [sink EXCEPT !.dir = TRUE]]
    ELSE [threw |-> FALSE, wrote |-> <<logEntry>>,
          sink |-> [sink EXCEPT !.dir = TRUE,
                                !.file = @ \o LogLine(logEntry)]]

\* A variant that writes the file anew instead of appending to it
WriteLogEntryTruncating(logEntry, error, sink, fs) ==
    IF ~sink.dir /\ fs = "mkdir_fails"
    THEN [threw |-> FALSE, wrote |-> <<>>, sink |-> sink]
    ELSE IF fs = "append_fails"
    THEN [threw |-> FALSE, wrote |-> <<>>, sink |-> [sink EXCEPT !.dir = TRUE]]
    ELSE [threw |-> FALSE, wrote |-> <<logEntry>>,
          sink |-> [sink EXCEPT !.dir = TRUE, !.file = LogLine(logEntry)]]

\* A variant whose write is split in two, the JSON text going in at the front
\* of the file and the separator line at its end
WriteLogEntryInterleaving(logEntry, error, sink, fs) ==
    IF ~sink.dir /\ fs = "mkdir_fails"
    THEN [threw |-> FALSE, wrote |-> <<>>, sink |-> sink]
    ELSE IF fs = "append_fails"
    THEN [threw |-> FALSE, wrote |-> <<>>, sink |-> [sink EXCEPT !.dir = TRUE]]
    ELSE [threw |-> FALSE, wrote |-> <<logEntry>>,
          sink |-> [sink EXCEPT !.dir = TRUE,
                                !.file = <<JsonStringify(logEntry), NL>> \o @
                                           \o <<Separator, NL>>]]

\* The guarded write: ensure the directory, append one log line; a failure is
\* caught and reported with console.error.  sink = [file, dir, console].
WriteLogEntry(logEntry, error, sink, fs) ==
    IF ~sink.dir /\ fs = "mkdir_fails"
    THEN [threw |-> FALSE, wrote |-> <<>>,
          sink |-> [sink EXCEPT !.console =
                      @ \o <<"Error escribiendo al log: EACCES: mkdir",
                             "Error original: " \o ToStr(error.message)>>]]
    ELSE IF fs = "append_fails"
    THEN [threw |-> FALSE, wrote |-> <<>>,
          sink |-> [sink EXCEPT !.dir = TRUE,
                                !.console =
                      @ \o <<"Error escribiendo al log: ENOSPC: write",
                             "Error original: " \o ToStr(error.message)>>]]
    ELSE [threw |-> FALSE, wrote |-> <<logEntry>>,
          sink |-> [sink EXCEPT !.dir = TRUE,
                                !.file = @ \o LogLine(logEntry)]]

\* A variant that returns the failure response and leaves the write for later
handleErrorWithLoggingDeferred(error, method, url, requestData, additionalContext, format, sink, fs) ==
    LET formatted == formatErrorResponse(error, method, url, requestData)
        built == buildContent(formatted.value, format)
    IN  IF formatted.threw
        THEN [threw |-> TRUE, error |-> formatted.error, result |-> NoResult,
              wrote |-> <<>>, sink |-> sink]
        ELSE IF built.threw
        THEN [threw |-> TRUE, error |-> built.error, result |-> formatted.value,
              wrote |-> <<>>, sink |-> sink]
        ELSE [threw |-> FALSE, value |-> built.value,
              result |-> formatted.value, wrote |-> <<>>, sink |-> sink]

handleErrorWithLogging(error, method, url, requestData, additionalContext, format, sink, fs) ==
    LET formatted == formatErrorResponse(error, method, url, requestData)
        errorResponse == formatted.value
        logEntry ==
            [timestamp |-> Timestamp,
             method |-> Str(method),
             url |-> url,
             requestData |-> requestData,
             error |-> [message |-> error.message,
                        code |-> OrElse(error.code, Str("UNKNOWN_ERROR")),
                        stack |-> error.stack],
             response |-> IF Truthy(error.response)
                          THEN [status |-> error.response.status,
                                statusText |-> error.response.statusText,
                                headers |-> error.response.headers,
                                data |-> error.response.data]
                          ELSE Null,
             additionalContext |-> additionalContext,
             errorResponse |-> errorResponse]
        w == WriteLogEntry(logEntry, error, sink, fs)
        return(built) ==
            IF built.threw
            THEN [threw |-> TRUE, error |-> built.error, result |-> errorResponse,
                  wrote |-> w.wrote, sink |-> w.sink]
            ELSE [threw |-> FALSE, value |-> built.value,
                  result |-> errorResponse, wrote |-> w.wrote, sink |-> w.sink]
    IN  IF formatted.threw
        THEN [threw |-> TRUE, error |-> formatted.error, result |-> NoResult,
              wrote |-> <<>>, sink |-> sink]
        ELSE IF w.threw
        THEN [threw |-> TRUE, error |-> w.error, result |-> errorResponse,
              wrote |-> w.wrote, sink |-> w.sink]
        ELSE return(buildContent(errorResponse, format))

----------------------------------------------------------------------------
(* ToolDispatcher: the CallTool request handler *)

\* Date.now() when the request is dispatched
Epoch == 1000

\* A variant without the Array.isArray test
validateArgsAcceptingArrays(args) ==
    LET argsToValidate == OrElse(args, EmptyObject)
    IN  IF TypeOf(argsToValidate) # "object"
        THEN Throw(MkError("Invalid arguments: expected object, got "
                             \o TypeOf(argsToValidate)))
        ELSE Ok(argsToValidate)

validateArgs(args) ==
    LET argsToValidate == OrElse(args, EmptyObject)
    IN  IF TypeOf(argsToValidate) # "object" \/ argsToValidate.t = "array"
        THEN Throw(MkError("Invalid arguments: expected object, got "
                             \o TypeOf(argsToValidate)))
        ELSE Ok(argsToValidate)

\* method.toLowerCase() / method.toUpperCase() on whatever the caller passed
MethodString(method) ==
    IF method.t = "string" THEN Ok(method.v)
    ELSE IF IsNullish(method)
    THEN Throw(MkError("Cannot read properties of undefined (reading 'toLowerCase')"))
    ELSE Throw(MkError("method.toLowerCase is not a function"))

\* A variant in which every tool carries the context tag of api_get
OutboundCallGetTag(tool, verb, method, a, body, requestData) ==
    [tool |-> "api_get",
     method |-> method,
     url |-> Get(a, "url"),
     requestData |-> requestData,
     fmt |-> OrElse(Get(a, "format"), Str("json")),
     sent |-> [method |-> verb,
               url |-> Get(a, "url"),
               data |-> body,
               headers |-> Get(a, "headers"),
               params |-> Get(a, "params"),
               metadata |-> [startTime |-> Num(Epoch)]]]

\* The outbound call one tool makes: what is handed to the transport (sent) and
\* what the handler keeps for formatting the outcome.
OutboundCall(tool, verb, method, a, body, requestData) ==
    [tool |-> tool,
     method |-> method,
     url |-> Get(a, "url"),
     requestData |-> requestData,
     fmt |-> OrElse(Get(a, "format"), Str("json")),
     sent |-> [method |-> verb,
               url |-> Get(a, "url"),
               data |-> body,
               headers |-> Get(a, "headers"),
               params |-> Get(a, "params"),
               metadata |-> [startTime |-> Num(Epoch)]]]

\* The handler from its entry to the await of the network call: the call it
\* makes, or the exception thrown before any call.
ToolCall(name, args) ==
    LET v == validateArgs(args)
    IN  CASE name = "api_get" ->
               IF v.threw THEN v
               ELSE Ok(OutboundCall("api_get", "get", "GET", v.value, Undefined, Null))
          [] name = "api_post" ->
               IF v.threw THEN v
               ELSE Ok(OutboundCall("api_post", "post", "POST", v.value,
                                    Get(v.value, "data"), Get(v.value, "data")))
          [] name = "api_put" ->
               IF v.threw THEN v
               ELSE Ok(OutboundCall("api_put", "put", "PUT", v.value,
                                    Get(v.value, "data"), Get(v.value, "data")))
          [] name = "api_delete" ->
               IF v.threw THEN v
               ELSE Ok(OutboundCall("api_delete", "delete", "DELETE", v.value,
                                    Undefined, Null))
          [] name = "api_request" ->
               IF v.threw THEN v
               ELSE LET m == MethodString(Get(v.value, "method"))
                        data == Get(v.value, "data")
                    IN  IF m.threw THEN m
                        ELSE Ok(OutboundCall("api_request", toLowerCase(m.value),
                                   toUpperCase(m.value), v.value,
                                   IF Truthy(data)
                                      /\ toLowerCase(m.value) \in {"post", "put", "patch"}
                                   THEN data ELSE Undefined,
                                   data))
          [] OTHER -> Throw(MkError("Unknown tool: " \o name))

\* A variant that second-guesses the status code of a returned response
SuccessPathCheckingStatus(c, resp, elapsed) ==
    LET stamped == [resp EXCEPT !.config =
                      [c.sent EXCEPT !.metadata =
                         [startTime |-> c.sent.metadata.startTime,
                          endTime |-> Num(c.sent.metadata.startTime.v + elapsed)]]]
        formatted == formatApiResponse(stamped, c.method, c.url, c.requestData)
        built == buildContent(formatted.value, c.fmt)
    IN  IF resp.status.v # 200
        THEN [threw |-> TRUE,
              error |-> MkError("Unexpected status " \o ToString(resp.status.v)),
              result |-> NoResult]
        ELSE IF formatted.threw
        THEN [threw |-> TRUE, error |-> formatted.error, result |-> NoResult]
        ELSE IF built.threw
        THEN [threw |-> TRUE, error |-> built.error, result |-> NoResult]
        ELSE [threw |-> FALSE, value |-> built.value, result |-> formatted.value]

\* The body of the inner try once the transport has returned resp after
\* elapsed milliseconds
SuccessPath(c, resp, elapsed) ==
    LET stamped == [resp EXCEPT !.config =
                      [c.sent EXCEPT !.metadata =
                         [startTime |-> c.sent.metadata.startTime,
                          endTime |-> Num(c.sent.metadata.startTime.v + elapsed)]]]
        formatted == formatApiResponse(stamped, c.method, c.url, c.requestData)
        return(built) ==
            IF built.threw
            THEN [threw |-> TRUE, error |-> built.error, result |-> NoResult]
            ELSE [threw |-> FALSE, value |-> built.value, result |-> formatted.value]
    IN  IF formatted.threw
        THEN [threw |-> TRUE, error |-> formatted.error, result |-> NoResult]
        ELSE return(buildContent(formatted.value, c.fmt))

\* A variant that logs the handler error without its category
HandlerErrorEntryUntyped(error, request) ==
    [timestamp |-> Timestamp,
     tool |-> Str(request.name),
     error |-> [message |-> error.message, stack |-> error.stack],
     request |-> [method |-> Str("tools/call"),
                  params |-> [name |-> Str(request.name),
                              arguments |-> request.args]]]

\* The log entry of the outer catch
HandlerErrorEntry(error, request) ==
    [timestamp |-> Timestamp,
     type |-> Str("handler_error"),
     tool |-> Str(request.name),
     error |-> [message |-> error.message, stack |-> error.stack],
     request |-> [method |-> Str("tools/call"),
                  params |-> [name |-> Str(request.name),
                              arguments |-> request.args]]]

\* The response of the outer catch
HandlerErrorResponse(error, request) ==
    [content |-> <<[type |-> "text",
                    text |-> JsonStringify([success |-> Bool(FALSE),
                                            error |-> error.message,
                                            tool |-> Str(request.name)])]>>,
     isError |-> TRUE]

\* A variant whose catch logs the error and throws it again
CallToolCatchRethrow(error, request, sink, fs) ==
    LET w == WriteLogEntry(HandlerErrorEntry(error, request), error, sink, fs)
    IN  [threw |-> TRUE, error |-> error, result |-> NoResult,
         wrote |-> w.wrote, sink |-> w.sink]

\* The outer catch: log a handler_error entry, answer with isError
CallToolCatch(error, request, sink, fs) ==
    LET w == WriteLogEntry(HandlerErrorEntry(error, request), error, sink, fs)
    IN  IF w.threw
        THEN [threw |-> TRUE, error |-> w.error, result |-> NoResult,
              wrote |-> w.wrote, sink |-> w.sink]
        ELSE [threw |-> FALSE, value |-> HandlerErrorResponse(error, request),
              result |-> NoResult, wrote |-> w.wrote, sink |-> w.sink]

\* The inner catch of a tool, and the outer catch behind it
ToolCatch(c, error, request, sink, fs) ==
    LET outer(h) ==
            IF h.threw
            THEN LET o == CallToolCatch(h.error, request, h.sink, fs)
                 IN  [o EXCEPT !.wrote = h.wrote \o @]
            ELSE h
    IN  outer(handleErrorWithLogging(error, c.method, c.url, c.requestData,
                                     [toolName |-> Str(c.tool)], c.fmt, sink, fs))

----------------------------------------------------------------------------
(* The strict-validation variant of the server: the arguments are parsed with
   the schema of the tool; the formatters, the log write and the outer catch
   are those of the dispatcher above, word for word. *)

EnumMethods == {"GET", "POST", "PUT", "DELETE", "PATCH", "HEAD", "OPTIONS"}
EnumText == "'GET' | 'POST' | 'PUT' | 'DELETE' | 'PATCH' | 'HEAD' | 'OPTIONS'"

\* z.string().url(): the text is an absolute URL, a scheme and what follows it
ParsesAsUrl(text) == Contains(text, "://") /\ SubSeq(text, 1, 3) # "://"

\* The name the schema library gives to the type of a value it received
ReceivedType(v) ==
    CASE v.t \in {"null", "array", "nan"} -> v.t
      [] v.t \in {"response", "unconvertible"} -> "object"
      [] OTHER -> v.t

\* url: urlSchema
UrlIssues(a) ==
    LET url == Get(a, "url")
    IN  IF url = Undefined THEN <<"url: Required">>
        ELSE IF url.t # "string"
        THEN <<"url: Expected string, received " \o ReceivedType(url)>>
        ELSE IF ~ParsesAsUrl(url.v) THEN <<"url: Invalid URL format">>
        ELSE <<>>

\* method: httpMethodSchema
MethodIssues(a) ==
    LET method == Get(a, "method")
    IN  IF method = Undefined THEN <<"method: Required">>
        ELSE IF method.t # "string"
        THEN <<"method: Expected " \o EnumText \o ", received "
                 \o ReceivedType(method)>>
        ELSE IF method.v \notin EnumMethods
        THEN <<"method: Invalid enum value. Expected " \o EnumText
                 \o ", received '" \o method.v \o "'">>
        ELSE <<>>

\* headers: headersSchema, params: paramsSchema (a record of strings, optional)
StringRecordIssues(a, key) ==
    LET v == Get(a, key)
    IN  IF v = Undefined THEN <<>>
        ELSE IF v.t # "object"
        THEN <<key \o ": Expected object, received " \o ReceivedType(v)>>
        ELSE LET bad == SelectSeq([i \in 1..Len(v.keys) |-> i],
                                  LAMBDA i : v.vals[i].t # "string")
             IN  [j \in 1..Len(bad) |->
                    key \o "." \o v.keys[bad[j]] \o ": Expected string, received "
                      \o ReceivedType(v.vals[bad[j]])]

\* schema.parse(argsToValidate): the issues in the order of the schema's keys,
\* or the parsed object: the keys of the schema only, headers and params
\* defaulting to an empty object
SchemaParse(toolName, a) ==
    LET issues == (IF toolName = "api_request" THEN MethodIssues(a) ELSE <<>>)
                  \o UrlIssues(a)
                  \o StringRecordIssues(a, "headers")
                  \o StringRecordIssues(a, "params")
        pairs == <<<<"method", IF toolName = "api_request"
                               THEN Get(a, "method") ELSE Undefined>>,
                   <<"url", Get(a, "url")>>,
                   <<"data", IF toolName \in {"api_post", "api_put", "api_request"}
                             THEN Get(a, "data") ELSE Undefined>>,
                   <<"headers", IF Get(a, "headers") = Undefined THEN EmptyObject
                                ELSE Get(a, "headers")>>,
                   <<"params", IF Get(a, "params") = Undefined THEN EmptyObject
                               ELSE Get(a, "params")>>>>
        present == SelectSeq(pairs, LAMBDA q : q[2] # Undefined)
    IN  IF issues # <<>>
        THEN Throw(MkError("Validation failed for " \o toolName \o ": "
                             \o Join(issues, ", ")))
        ELSE Ok(Obj([i \in 1..Len(present) |-> present[i][1]],
                    [i \in 1..Len(present) |-> present[i][2]]))

StrictValidateArgs(args, toolName) ==
    LET argsToValidate == OrElse(args, EmptyObject)
    IN  IF TypeOf(argsToValidate) # "object" \/ argsToValidate.t = "array"
        THEN Throw(MkError("Invalid arguments: expected object, got "
                             \o TypeOf(argsToValidate)))
        ELSE SchemaParse(toolName, argsToValidate)

\* The outbound call of a tool of the variant
StrictOutboundCall(tool, verb, method, a, body, requestData) ==
    [tool |-> tool,
     method |-> method,
     url |-> Get(a, "url"),
     requestData |-> requestData,
     sent |-> [method |-> verb,
               url |-> Get(a, "url"),
               data |-> body,
               headers |-> Get(a, "headers"),
               params |-> Get(a, "params"),
               metadata |-> [startTime |-> Num(Epoch)]]]

\* The handler of the variant from its entry to the await of the network call
StrictToolCall(name, args) ==
    LET v == StrictValidateArgs(args, name)
    IN  CASE name = "api_get" ->
               IF v.threw THEN v
               ELSE Ok(StrictOutboundCall("api_get", "get", "GET", v.value,
                                          Undefined, Null))
          [] name = "api_post" ->
               IF v.threw THEN v
               ELSE Ok(StrictOutboundCall("api_post", "post", "POST", v.value,
                                          Get(v.value, "data"), Get(v.value, "data")))
          [] name = "api_put" ->
               IF v.threw THEN v
               ELSE Ok(StrictOutboundCall("api_put", "put", "PUT", v.value,
                                          Get(v.value, "data"), Get(v.value, "data")))
          [] name = "api_delete" ->
               IF v.threw THEN v
               ELSE Ok(StrictOutboundCall("api_delete", "delete", "DELETE", v.value,
                                          Undefined, Null))
          [] name = "api_request" ->
               IF v.threw THEN v
               ELSE LET m == Get(v.value, "method").v
                        data == Get(v.value, "data")
                    IN  Ok(StrictOutboundCall("api_request", toLowerCase(m),
                              toUpperCase(m), v.value,
                              IF Truthy(data)
                                 /\ toLowerCase(m) \in {"post", "put", "patch"}
                              THEN data ELSE Undefined,
                              data))
          [] OTHER -> Throw(MkError("Unknown tool: " \o name))

\* { content: [{ type: "text", text: JSON.stringify(result, null, 2) }] }
JsonContent(res) == [content |-> <<[type |-> "text", text |-> JsonStringify(res)]>>]

\* The body of the inner try of the variant once the transport has returned
StrictSuccessPath(c, resp, elapsed) ==
    LET stamped == [resp EXCEPT !.config =
                      [c.sent EXCEPT !.metadata =
                         [startTime |-> c.sent.metadata.startTime,
                          endTime |-> Num(c.sent.metadata.startTime.v + elapsed)]]]
        formatted == formatApiResponse(stamped, c.method, c.url, c.requestData)
    IN  IF formatted.threw THEN formatted
        ELSE Ok(JsonContent(formatted.value))

StrictHandleErrorWithLogging(error, method, url, requestData, additionalContext, sink, fs) ==
    LET formatted == formatErrorResponse(error, method, url, requestData)
        errorResponse == formatted.value
        logEntry ==
            [timestamp |-> Timestamp,
             method |-> Str(method),
             url |-> url,
             requestData |-> requestData,
             error |-> [message |-> error.message,
                        code |-> OrElse(error.code, Str("UNKNOWN_ERROR")),
                        stack |-> error.stack],
             response |-> IF Truthy(error.response)
                          THEN [status |-> error.response.status,
                                statusText |-> error.response.statusText,
                                headers |-> error.response.headers,
                                data |-> error.response.data]
                          ELSE Null,
             additionalContext |-> additionalContext,
             errorResponse |-> errorResponse]
        w == WriteLogEntry(logEntry, error, sink, fs)
    IN  IF formatted.threw
        THEN [threw |-> TRUE, error |-> formatted.error, wrote |-> <<>>,
              sink |-> sink]
        ELSE [threw |-> FALSE, value |-> JsonContent(errorResponse),
              wrote |-> w.wrote, sink |-> w.sink]

\* The outer catch of the variant
StrictCallToolCatch(error, request, sink, fs) ==
    LET w == WriteLogEntry(HandlerErrorEntry(error, request), error, sink, fs)
    IN  [threw |-> FALSE, value |-> HandlerErrorResponse(error, request),
         wrote |-> w.wrote, sink |-> w.sink]

\* The inner catch of a tool of the variant, and the outer catch behind it
StrictToolCatch(c, error, request, sink, fs) ==
    LET h == StrictHandleErrorWithLogging(error, c.method, c.url, c.requestData,
                                          [toolName |-> Str(c.tool)], sink, fs)
    IN  IF h.threw
        THEN LET o == StrictCallToolCatch(h.error, request, h.sink, fs)
             IN  [o EXCEPT !.wrote = h.wrote \o @]
        ELSE h

\* The whole handler of the variant on a request, the transport answering its
\* call, if it makes one, with the outcome out
StrictHandler(request, out, sink, fs) ==
    LET p == StrictToolCall(request.name, request.args)
    IN  IF p.threw THEN StrictCallToolCatch(p.error, request, sink, fs)
        ELSE IF out.transport = "returned"
        THEN LET s == StrictSuccessPath(p.value, out.response, out.elapsed)
             IN  IF s.threw
                 THEN StrictToolCatch(p.value, s.error, request, sink, fs)
                 ELSE [threw |-> FALSE, value |-> s.value, wrote |-> <<>>,
                       sink |-> sink]
        ELSE IF out.transport = "raised"
        THEN StrictToolCatch(p.value, out.error, request, sink, fs)
        ELSE [awaiting |-> TRUE]

----------------------------------------------------------------------------
(* The variant of the server without validation, logging and formats *)

\* const { url, ... } = args, for arguments that are no object at all
DestructureError(args, property) ==
    MkError("Cannot destructure property '" \o property \o "' of 'args' as it is "
              \o ToStr(args) \o ".")

\* headers = {}, params = {}: the default of a destructured property
OrDefault(v) == IF v = Undefined THEN EmptyObject ELSE v

PlainOutboundCall(tool, verb, method, a, body, requestData) ==
    [tool |-> tool,
     method |-> method,
     url |-> Get(a, "url"),
     requestData |-> requestData,
     sent |-> [method |-> verb,
               url |-> Get(a, "url"),
               data |-> body,
               headers |-> OrDefault(Get(a, "headers")),
               params |-> OrDefault(Get(a, "params")),
               metadata |-> [startTime |-> Num(Epoch)]]]

\* The handler of the variant from its entry to the await of the network call
PlainToolCall(name, args) ==
    CASE name = "api_get" ->
           IF NoObject(args) THEN Throw(DestructureError(args, "url"))
           ELSE Ok(PlainOutboundCall("api_get", "get", "GET", args, Undefined, Null))
      [] name = "api_post" ->
           IF NoObject(args) THEN Throw(DestructureError(args, "url"))
           ELSE Ok(PlainOutboundCall("api_post", "post", "POST", args,
                                     Get(args, "data"), Get(args, "data")))
      [] name = "api_put" ->
           IF NoObject(args) THEN Throw(DestructureError(args, "url"))
           ELSE Ok(PlainOutboundCall("api_put", "put", "PUT", args,
                                     Get(args, "data"), Get(args, "data")))
      [] name = "api_delete" ->
           IF NoObject(args) THEN Throw(DestructureError(args, "url"))
           ELSE Ok(PlainOutboundCall("api_delete", "delete", "DELETE", args,
                                     Undefined, Null))
      [] name = "api_request" ->
           IF NoObject(args) THEN Throw(DestructureError(args, "method"))
           ELSE LET m == MethodString(Get(args, "method"))
                    data == Get(args, "data")
                IN  IF m.threw THEN m
                    ELSE Ok(PlainOutboundCall("api_request", toLowerCase(m.value),
                               toUpperCase(m.value), args,
                               IF Truthy(data)
                                  /\ toLowerCase(m.value) \in {"post", "put", "patch"}
                               THEN data ELSE Undefined,
                               data))
      [] OTHER -> Throw(MkError("Unknown tool: " \o name))

\* The body of the inner try of the variant once the transport has returned
PlainSuccessPath(c, resp, elapsed) ==
    LET stamped == [resp EXCEPT !.config =
                      [c.sent EXCEPT !.metadata =
                         [startTime |-> c.sent.metadata.startTime,
                          endTime |-> Num(c.sent.metadata.startTime.v + elapsed)]]]
        formatted == formatApiResponse(stamped, c.method, c.url, c.requestData)
    IN  IF formatted.threw THEN formatted
        ELSE Ok(JsonContent(formatted.value))

\* The outer catch of the variant: the answer with isError, and no log
PlainCallToolCatch(error, request) == Ok(HandlerErrorResponse(error, request))

\* A variant whose inner catch flags the failure response with isError
PlainToolCatchFlagged(c, error, request) ==
    LET formatted == formatErrorResponse(error, c.method, c.url, c.requestData)
    IN  IF formatted.threw THEN PlainCallToolCatch(formatted.error, request)
        ELSE Ok(JsonContent(formatted.value) @@ [isError |-> TRUE])

\* The inner catch of a tool of the variant, and the outer catch behind it
PlainToolCatch(c, error, request) ==
    LET formatted == formatErrorResponse(error, c.method, c.url, c.requestData)
    IN  IF formatted.threw THEN PlainCallToolCatch(formatted.error, request)
        ELSE Ok(JsonContent(formatted.value))

\* The whole handler of the variant on a request, the transport answering its
\* call, if it makes one, with the outcome out
PlainHandler(request, out) ==
    LET p == PlainToolCall(request.name, request.args)
    IN  IF p.threw THEN PlainCallToolCatch(p.error, request)
        ELSE IF out.transport = "returned"
        THEN LET s == PlainSuccessPath(p.value, out.response, out.elapsed)
             IN  IF s.threw THEN PlainToolCatch(p.value, s.error, request)
                 ELSE s
        ELSE IF out.transport = "raised"
        THEN PlainToolCatch(p.value, out.error, request)
        ELSE [awaiting |-> TRUE]

----------------------------------------------------------------------------
(* The inputs: requests, transport outcomes *)

Url == Str("http://h/a")
Body == Obj(<<"k">>, <<Num(1)>>)

\* The argument object with the given fields; an undefined field is left out
MkArgs(url, method, data, format) ==
    LET pairs == <<<<"url", url>>, <<"method", method>>,
                   <<"data", data>>, <<"format", format>>>>
        present == SelectSeq(pairs, LAMBDA q : q[2] # Undefined)
    IN  Obj([i \in 1..Len(present) |-> present[i][1]],
            [i \in 1..Len(present) |-> present[i][2]])

ToolNames == {"api_get", "api_post", "api_put", "api_delete", "api_request"}

Methods(name) ==
    IF name = "api_request"
    THEN {Undefined, Str("GET"), Str("post"), Str("PATCH"), Num(7)}
    ELSE {Undefined}

Datas(name) ==
    IF name \in {"api_post", "api_put", "api_request"}
    THEN {Undefined, Str(""), Body}
    ELSE {Undefined}

Formats == {Undefined, Str("json"), Str("csv"), Str("xml")}

\* Every request of the single-invocation runs
RichRequests ==
    { [name |-> n, args |-> a] :
        n \in ToolNames \cup {"api_foo"},
        a \in {Undefined, Str("x"), Arr(<<>>)} }
    \cup
    UNION { { [name |-> n, args |-> MkArgs(u, m, d, f)] :
                u \in {Undefined, Url}, m \in Methods(n),
                d \in Datas(n), f \in Formats } : n \in ToolNames }
    \cup
    { [name |-> "api_foo", args |-> MkArgs(Url, Undefined, Undefined, f)] :
        f \in Formats }

\* The requests of the overlapping runs
CompactRequests ==
    { [name |-> "api_get", args |-> MkArgs(Url, Undefined, Undefined, Undefined)],
      [name |-> "api_post", args |-> MkArgs(Url, Undefined, Body, Str("csv"))],
      [name |-> "api_delete", args |-> MkArgs(Undefined, Undefined, Undefined, Undefined)],
      [name |-> "api_request", args |-> MkArgs(Url, Undefined, Undefined, Str("csv"))],
      [name |-> "api_foo", args |-> Undefined] }

Requests == IF universe = "rich" THEN RichRequests ELSE CompactRequests

HttpResponse(status, statusText, data) ==
    [t |-> "response", status |-> Num(status), statusText |-> Str(statusText),
     headers |-> Obj(<<"content-type">>, <<Str("application/json")>>),
     data |-> data, config |-> Undefined]

\* The bodies a response may carry (response.data)
ResponseData ==
    { Obj(<<"a", "b">>, <<Num(1), Num(2)>>),
      Obj(<<"k,1", "q">>, <<Str("say \"hi\""), Null>>),
      EmptyObject,
      Arr(<<Obj(<<"x">>, <<Num(1)>>), Obj(<<"y">>, <<Num(2)>>)>>),
      Arr(<<Obj(<<"y", "x">>, <<Str("a,b\"c"), Null>>),
            Obj(<<"x", "z">>, <<Num(3), Str("")>>)>>),
      Arr(<<EmptyObject>>),
      Arr(<<Num(1), Num(2)>>),
      Arr(<<>>),
      Str("a,b"), Str("a,b\"c"), Str("x\ny"), Str("ok"), Str(""),
      Num(7), Num(0),
      Null, Undefined }

\* What the transport may resolve with
Responses ==
    IF universe = "rich"
    THEN { HttpResponse(200, "OK", d) : d \in ResponseData }
         \cup { HttpResponse(204, "No Content", Str("")) }
    ELSE { HttpResponse(200, "OK", Obj(<<"a", "b">>, <<Num(1), Num(2)>>)) }

HttpFailure(status, statusText) ==
    [message |-> Str("Request failed with status code " \o ToString(status)),
     code |-> Str("ERR_BAD_REQUEST"),
     stack |-> Str("AxiosError"),
     response |-> HttpResponse(status, statusText, Obj(<<"msg">>, <<Str("no")>>))]

TimeoutFailure ==
    [message |-> Str("timeout of 30000ms exceeded"), code |-> Str("ECONNABORTED"),
     stack |-> Str("AxiosError"), response |-> Undefined]

\* Failures whose message is empty or missing: an error built without a
\* message, a connection error that carries a code only, a rejection with a
\* value that has no message at all
MessagelessFailures ==
    { MkError(""),
      [message |-> Str(""), code |-> Str("ECONNREFUSED"),
       stack |-> Str("AggregateError"), response |-> Undefined],
      [message |-> Undefined, code |-> Undefined,
       stack |-> Undefined, response |-> Undefined],
      [HttpFailure(502, "Bad Gateway") EXCEPT !.message = Str("")] }

\* What the transport may reject with
Failures ==
    IF universe = "rich"
    THEN { HttpFailure(404, "Not Found"), HttpFailure(500, "Internal Server Error"),
           [HttpFailure(503, "Service Unavailable") EXCEPT !.response.data = Str("")],
           TimeoutFailure, MkError("socket closed") }
         \cup MessagelessFailures
    ELSE { HttpFailure(404, "Not Found"), TimeoutFailure }

\* What the file system may do to a logging attempt of this run
FsChoices == IF universe = "rich" THEN FsOutcomes ELSE {"ok", "append_fails"}

\* The latencies the transport may report
Latencies == IF universe = "rich" THEN 0..MaxElapsed ELSE {MaxElapsed}

\* Whether a logging attempt with file-system outcome fs can write
SinkWritable(dir, fs) == fs = "ok" \/ (dir /\ fs = "mkdir_fails")

----------------------------------------------------------------------------
(* The state machine *)

NoRequest == [name |-> "", args |-> Undefined]
NoCall == [tool |-> ""]
NoOutcome == [transport |-> "none"]
NoResponse == [pending |-> TRUE]
NoProbe == [fn |-> "none"]
NoAnswer == [pending |-> TRUE]

Sink == [file |-> logFile, dir |-> logDir, console |-> console]

InitCommon ==
    /\ started = 0
    /\ pc = [i \in Inv |-> "idle"]
    /\ req = [i \in Inv |-> NoRequest]
    /\ call = [i \in Inv |-> NoCall]
    /\ outcome = [i \in Inv |-> NoOutcome]
    /\ result = [i \in Inv |-> NoResult]
    /\ response = [i \in Inv |-> NoResponse]
    /\ netCalls = [i \in Inv |-> 0]
    /\ appended = [i \in Inv |-> <<>>]
    /\ logFile = <<>>
    /\ console = <<>>
    /\ answer = NoAnswer

\* One invocation, drawn from every request
InitCall ==
    /\ InitCommon
    /\ slots = {1}
    /\ universe = "rich"
    /\ logDir \in BOOLEAN
    /\ probe = NoProbe

\* Up to MaxInv invocations that may overlap
InitOverlap ==
    /\ InitCommon
    /\ slots = Inv
    /\ universe = "compact"
    /\ logDir = FALSE
    /\ probe = NoProbe

Init == InitCall \/ InitOverlap

\* The handler returns (or lets an exception escape): h is the completion
Finish(i, h) ==
    /\ pc' = [pc EXCEPT ![i] = "done"]
    /\ response' = [response EXCEPT ![i] =
                      IF h.threw THEN [escaped |-> TRUE, error |-> h.error]
                      ELSE [escaped |-> FALSE, value |-> h.value]]
    /\ result' = [result EXCEPT ![i] = h.result]
    /\ appended' = [appended EXCEPT ![i] = @ \o h.wrote]
    /\ logFile' = h.sink.file
    /\ logDir' = h.sink.dir
    /\ console' = h.sink.console

\* A tools/call request arrives: the handler runs up to its await, or fails
\* before it and answers from the outer catch.
Dispatch(i) ==
    /\ i \in slots
    /\ pc[i] = "idle"
    /\ i = started + 1
    /\ \E r \in Requests, fs \in FsChoices :
         LET p == ToolCall(r.name, r.args)
         IN  /\ started' = started + 1
             /\ req' = [req EXCEPT ![i] = r]
             /\ IF p.threw
                THEN /\ Finish(i, CallToolCatch(p.error, r, Sink, fs))
                     /\ outcome' = [outcome EXCEPT ![i] =
                                      [transport |-> "none", fs |-> fs,
                                       writable |-> SinkWritable(logDir, fs)]]
                     /\ UNCHANGED <<call, netCalls>>
                ELSE /\ pc' = [pc EXCEPT ![i] = "awaiting"]
                     /\ call' = [call EXCEPT ![i] = p.value]
                     /\ netCalls' = [netCalls EXCEPT ![i] = @ + 1]
                     /\ UNCHANGED <<outcome, result, response, appended,
                                    logFile, logDir, console>>
    /\ UNCHANGED <<slots, universe, probe, answer>>

\* The transport resolves the awaited call with a response
TransportReturn(i) ==
    /\ pc[i] = "awaiting"
    /\ \E resp \in Responses, elapsed \in Latencies, fs \in FsChoices :
         LET inner(s) ==
                 IF s.threw
                 THEN ToolCatch(call[i], s.error, req[i], Sink, fs)
                 ELSE s @@ [wrote |-> <<>>, sink |-> Sink]
         IN  /\ Finish(i, inner(SuccessPath(call[i], resp, elapsed)))
             /\ outcome' = [outcome EXCEPT ![i] =
                              [transport |-> "returned", response |-> resp,
                               elapsed |-> elapsed]]
    /\ UNCHANGED <<slots, universe, started, req, call, netCalls, probe, answer>>

\* The transport rejects the awaited call
TransportRaise(i) ==
    /\ pc[i] = "awaiting"
    /\ \E error \in Failures, fs \in FsChoices :
         /\ Finish(i, ToolCatch(call[i], error, req[i], Sink, fs))
         /\ outcome' = [outcome EXCEPT ![i] =
                          [transport |-> "raised", error |-> error, fs |-> fs,
                           writable |-> SinkWritable(logDir, fs)]]
    /\ UNCHANGED <<slots, universe, started, req, call, netCalls, probe, answer>>

Next == \E i \in Inv : Dispatch(i) \/ TransportReturn(i) \/ TransportRaise(i)

Spec == Init /\ [][Next]_vars

----------------------------------------------------------------------------
(* The functions of the server applied on their own, to inputs that include
   those no call of a tool hands them *)

\* Bodies with nested values, with elements that are not mappings, and with a
\* value that cannot be converted to a string
FnData ==
    ResponseData
    \cup { Obj(<<"id", "tags", "owner">>,
              <<Num(1), Arr(<<Str("a"), Str("b")>>), Obj(<<"n">>, <<Str("x")>>)>>),
           Arr(<<Obj(<<"a">>, <<Num(1)>>), Null, Num(5), Obj(<<"b">>, <<Num(2)>>)>>),
           Arr(<<Arr(<<Num(1), Num(2)>>), Obj(<<"a">>, <<Num(1)>>)>>),
           Arr(<<Obj(<<"a">>, <<Obj(<<"n">>, <<Num(1)>>)>>)>>),
           Obj(<<"a">>, <<Unconvertible>>),
           Arr(<<Obj(<<"a">>, <<Unconvertible>>)>>),
           Unconvertible }

FnUrls == { Str("http://h/a"), Str("http://h/a\nb"), Str("http://h/a|b") }

FnSuccess(url, data) ==
    [success |-> Bool(TRUE), method |-> Str("GET"), url |-> url,
     status |-> Num(200), statusText |-> Str("OK"),
     headers |-> Obj(<<"content-type">>, <<Str("application/json")>>),
     data |-> data, responseTime |-> Num(1)]

FnFailure(url, error) ==
    [success |-> Bool(FALSE), method |-> Str("GET"), url |-> url,
     error |-> error, code |-> Str("ERR_BAD_REQUEST")]

\* The results handed to toCsv: well-formed ones, and malformed ones (no
\* result at all, a result that is no object, a field that cannot be converted)
FnResults ==
    { FnSuccess(u, d) : u \in FnUrls, d \in FnData }
    \cup { FnFailure(u, e) : u \in FnUrls,
                             e \in {Str("boom"), Str("line1\nline2"), Str("a|b")} }
    \cup { [status |-> Num(404), statusText |-> Str("Not Found"),
            headers |-> EmptyObject, data |-> Obj(<<"msg">>, <<Str("no")>>)]
             @@ FnFailure(Str("http://h/a"), Str("boom")) }
    \cup { FnSuccess(Unconvertible, Str("ok")),
           FnSuccess(Unconvertible, Obj(<<"a">>, <<Unconvertible>>)),
           Null, Undefined, Str("x") }

\* The responses handed to formatApiResponse: with the request configuration
\* and its timestamps, with a timestamp or the metadata missing, without a
\* configuration, and no response at all
FnResponses ==
    { [HttpResponse(200, "OK", d) EXCEPT !.config = c] :
        d \in {Obj(<<"a", "b">>, <<Num(1), Num(2)>>),
               Obj(<<"self">>, <<Obj(<<"self">>, <<EmptyObject>>)>>),
               Unconvertible},
        c \in {[metadata |-> [startTime |-> Num(Epoch), endTime |-> Num(Epoch + 1)]],
               [metadata |-> [startTime |-> Num(Epoch), endTime |-> Num(Epoch)]],
               [metadata |-> [startTime |-> Num(Epoch)]],
               [metadata |-> Undefined],
               Undefined, Null} }
    \cup {Null, Undefined}

\* The failures handed to formatErrorResponse
FnFailures ==
    { HttpFailure(404, "Not Found"), TimeoutFailure, MkError("socket closed"),
      Null, Undefined }
    \cup MessagelessFailures

Probes ==
    { [fn |-> "toCsv", result |-> r] : r \in FnResults }
    \cup { [fn |-> "formatApiResponse", response |-> r, requestData |-> q] :
             r \in FnResponses, q \in {Null, Body} }
    \cup { [fn |-> "formatErrorResponse", error |-> e, requestData |-> q] :
             e \in FnFailures, q \in {Null, Body} }

InitFn ==
    /\ InitCommon
    /\ slots = {}
    /\ universe = "functions"
    /\ logDir = FALSE
    /\ probe \in Probes

Answered(a) ==
    /\ answer = NoAnswer
    /\ answer' = a
    /\ UNCHANGED <<slots, universe, started, pc, req, call, outcome, result,
                   response, netCalls, appended, logFile, logDir, console, probe>>

ApplyToCsv ==
    /\ probe.fn = "toCsv"
    /\ Answered(toCsv(probe.result))

ApplyFormatApiResponse ==
    /\ probe.fn = "formatApiResponse"
    /\ Answered(formatApiResponse(probe.response, "GET", Url, probe.requestData))

ApplyFormatErrorResponse ==
    /\ probe.fn = "formatErrorResponse"
    /\ Answered(formatErrorResponse(probe.error, "GET", Url, probe.requestData))

NextFn == ApplyToCsv \/ ApplyFormatApiResponse \/ ApplyFormatErrorResponse

SpecFn == InitFn /\ [][NextFn]_vars

----------------------------------------------------------------------------
(* What the claims speak about *)

Done(i) == pc[i] = "done"
Returned(i) == Done(i) /\ ~response[i].escaped
Payload(i) == response[i].value.content[1].text
IsError(i) == "isError" \in DOMAIN response[i].value /\ response[i].value.isError
HasResult(i) == result[i] # NoResult

\* The argument mapping the handler reads (absent arguments read as empty)
ArgsOf(i) == OrElse(req[i].args, EmptyObject)

SuccessShaped(r) ==
    /\ r.success = Bool(TRUE)
    /\ {"status", "statusText", "headers", "data"} \subseteq DOMAIN r
    /\ DOMAIN r \cap {"error", "code"} = {}

FailureShaped(r) ==
    /\ r.success = Bool(FALSE)
    /\ {"error", "code"} \subseteq DOMAIN r

----------------------------------------------------------------------------
(* C1: every invocation that has finished has returned a response object with
   one text content item; no exception has escaped the handler, whatever the
   operation name, the arguments, the transport outcome and the log-sink
   outcome were. *)
C1_HandlerAlwaysReturns ==
    \A i \in Inv :
        Done(i) =>
            /\ ~response[i].escaped
            /\ Len(response[i].value.content) = 1
            /\ response[i].value.content[1].type = "text"

\* a call with non-object arguments answered while the log sink failed
C1_Witness ==
    \E i \in Inv :
        /\ Returned(i)
        /\ req[i].args = Str("x")
        /\ outcome[i].transport = "none"
        /\ ~outcome[i].writable

----------------------------------------------------------------------------
\* Whether the arguments lack a required field: url, and method for api_request
LacksRequired(i) ==
    \/ Get(ArgsOf(i), "url") = Undefined
    \/ req[i].name = "api_request" /\ Get(ArgsOf(i), "method") = Undefined

(* C2: a call of one of the five tools whose arguments lack url (or, for
   api_request, method) is answered at once with an error response and makes
   no outbound network call. *)
C2_MissingRequiredNoCall ==
    \A i \in Inv :
        (pc[i] # "idle" /\ req[i].name \in ToolNames /\ LacksRequired(i)) =>
            /\ netCalls[i] = 0
            /\ Done(i)
            /\ outcome[i].transport = "none"
            /\ IsError(i)

----------------------------------------------------------------------------
\* The JSON entries of the log file: a log line is an entry, a line break, the
\* separator and a line break
EntriesInFile == { logFile[k] : k \in { j \in 1..Len(logFile) : j % 4 = 1 } }

\* The log entries of the handler_error category among those i appended
HandlerEntries(i) ==
    SelectSeq(appended[i],
              LAMBDA e : "type" \in DOMAIN e /\ e.type = Str("handler_error"))

\* The response to an unknown tool: flagged, naming the tool, no network call
UnknownToolAnswer(i) ==
    /\ Returned(i)
    /\ IsError(i)
    /\ Payload(i).enc = "json"
    /\ Payload(i).doc.tool = Str(req[i].name)
    /\ Payload(i).doc.error = Str("Unknown tool: " \o req[i].name)
    /\ Contains(Payload(i).doc.error.v, req[i].name)
    /\ Payload(i).doc.success = Bool(FALSE)
    /\ netCalls[i] = 0
    /\ outcome[i].transport = "none"

(* C3 as stated: a call of an unknown tool returns isError=true naming the
   tool, makes no network call and appends one handler_error log entry. *)
C3_UnknownToolAlwaysLogged ==
    \A i \in Inv :
        (pc[i] # "idle" /\ req[i].name \notin ToolNames) =>
            /\ UnknownToolAnswer(i)
            /\ Len(appended[i]) = 1
            /\ HandlerEntries(i) = appended[i]

(* C3 as amended: a call of an unknown tool returns isError=true naming the
   tool and makes no network call; it appends exactly one log entry, of the
   handler_error category, when the log sink is writable, and nothing when
   it is not (the logging failure then goes to the console); it never
   appends a network-failure entry. *)
C3_UnknownTool ==
    \A i \in Inv :
        (pc[i] # "idle" /\ req[i].name \notin ToolNames) =>
            /\ UnknownToolAnswer(i)
            /\ HandlerEntries(i) = appended[i]
            /\ outcome[i].writable =>
                  /\ Len(appended[i]) = 1
                  /\ appended[i][1].tool = Str(req[i].name)
                  /\ JsonStringify(appended[i][1]) \in EntriesInFile
            /\ ~outcome[i].writable =>
                  /\ appended[i] = <<>>
                  /\ console # <<>>

\* an unknown tool answered and logged
C3_Witness ==
    \E i \in Inv :
        /\ Returned(i)
        /\ req[i].name = "api_foo"
        /\ outcome[i].writable
        /\ Len(appended[i]) = 1
        /\ IsError(i)

----------------------------------------------------------------------------
(* C4: the result of a finished invocation has success=true exactly when the
   transport returned a response: a returned response of any status gives a
   success-shaped result, which is what the payload carries, and appends
   nothing to the log; a raising transport gives success=false. *)
C4_SuccessIffTransportReturned ==
    \A i \in Inv :
        Done(i) =>
            /\ (HasResult(i) /\ result[i].success = Bool(TRUE))
                  <=> outcome[i].transport = "returned"
            /\ outcome[i].transport = "returned" =>
                  /\ SuccessShaped(result[i])
                  /\ result[i].status = outcome[i].response.status
                  /\ appended[i] = <<>>
                  /\ ~IsError(i)
                  /\ Payload(i).enc = "json" => Payload(i).doc.success = Bool(TRUE)
            /\ outcome[i].transport = "raised" =>
                  /\ HasResult(i)
                  /\ result[i].success = Bool(FALSE)
                  /\ Payload(i).enc = "json" => Payload(i).doc.success = Bool(FALSE)

\* a response whose status is not 200 was returned and reported as a success
C4_Witness ==
    \E i \in Inv :
        /\ Returned(i)
        /\ outcome[i].transport = "returned"
        /\ outcome[i].response.status = Num(204)
        /\ result[i].success = Bool(TRUE)
        /\ logFile = <<>>

----------------------------------------------------------------------------
\* Whether the failure the transport raised for i carried an HTTP response
CarriedResponse(i) == outcome[i].error.response # Undefined

(* C5: every canonical result is success-shaped or failure-shaped and never
   both; a success comes from a returned response and a failure from a raised
   one; a failure has status, statusText, headers and data exactly when the
   failure carried an HTTP response; method and url are fields of both. *)
C5_ResultShape ==
    \A i \in Inv :
        HasResult(i) =>
            LET r == result[i]
            IN  /\ SuccessShaped(r) # FailureShaped(r)
                /\ {"method", "url"} \subseteq DOMAIN r
                /\ SuccessShaped(r) => outcome[i].transport = "returned"
                /\ FailureShaped(r) =>
                      /\ outcome[i].transport = "raised"
                      /\ \A f \in {"status", "statusText", "headers", "data"} :
                            f \in DOMAIN r <=> CarriedResponse(i)

\* a failure-shaped result without the response fields
C5_Witness ==
    \E i \in Inv :
        /\ HasResult(i)
        /\ FailureShaped(result[i])
        /\ ~CarriedResponse(i)
        /\ "status" \notin DOMAIN result[i]

----------------------------------------------------------------------------
\* A call that timed out: the transport raised a failure without a response
TimedOut(i) ==
    /\ Done(i)
    /\ outcome[i].transport = "raised"
    /\ outcome[i].error.response = Undefined

(* C6 as stated: a call that times out returns a failure-shaped result whose
   responseTime is the sentinel "N/A" and which has no status field, and
   appends exactly one entry to the log. *)
C6_TimeoutHasSentinel ==
    \A i \in Inv :
        TimedOut(i) =>
            /\ FailureShaped(result[i])
            /\ Field(result[i], "responseTime") = Str("N/A")
            /\ "status" \notin DOMAIN result[i]
            /\ Len(appended[i]) = 1

(* C6 as amended: a call that times out returns a failure-shaped result that
   has no status field and no responseTime field at all (the "N/A" sentinel
   only shows as time:N/Ams in the comment line of a CSV payload); it appends
   exactly one entry to the log when the log sink is writable and none when
   it is not. *)
C6_Timeout ==
    \A i \in Inv :
        TimedOut(i) =>
            /\ Returned(i)
            /\ FailureShaped(result[i])
            /\ "responseTime" \notin DOMAIN result[i]
            /\ "status" \notin DOMAIN result[i]
            /\ Payload(i).enc = "json" => "responseTime" \notin DOMAIN Payload(i).doc
            /\ Payload(i).enc = "csv" => Contains(Payload(i).doc, "|time:N/Ams")
            /\ Len(appended[i]) = (IF outcome[i].writable THEN 1 ELSE 0)

\* a timed-out call answered and logged
C6_Witness ==
    \E i \in Inv :
        /\ TimedOut(i)
        /\ outcome[i].error.code = Str("ECONNABORTED")
        /\ outcome[i].writable
        /\ Len(appended[i]) = 1
        /\ Payload(i).enc = "csv"

----------------------------------------------------------------------------
\* The number of log lines the invocations of this run appended
RECURSIVE AppendedUpTo(_)
AppendedUpTo(n) == IF n = 0 THEN 0 ELSE Len(appended[n]) + AppendedUpTo(n - 1)

(* C7: a call of one of the five tools whose transport raises while the log
   sink is writable appends exactly one entry, which is in the log file and
   whose context tag names the tool that was called; the file holds one log
   line per appended entry. *)
C7_OneTaggedEntryPerFailure ==
    /\ Len(logFile) = 4 * AppendedUpTo(MaxInv)
    /\ \A i \in Inv :
          (Done(i) /\ req[i].name \in ToolNames /\ outcome[i].transport = "raised"
             /\ outcome[i].writable) =>
                /\ Len(appended[i]) = 1
                /\ appended[i][1].additionalContext = [toolName |-> Str(req[i].name)]
                /\ JsonStringify(appended[i][1]) \in EntriesInFile

\* two calls of different tools both failed and were both logged
C7_Witness ==
    \E i, j \in Inv :
        /\ i # j
        /\ Done(i) /\ Done(j)
        /\ req[i].name = "api_get" /\ req[j].name = "api_post"
        /\ outcome[i].transport = "raised" /\ outcome[j].transport = "raised"
        /\ outcome[i].writable /\ outcome[j].writable
        /\ Len(logFile) = 8

----------------------------------------------------------------------------
\* The invocations whose logging attempt failed
FailedLogging == { i \in Inv : Done(i) /\ outcome[i].transport # "returned"
                                 /\ ~outcome[i].writable }

(* C8: the response to a failed network call does not depend on the log sink:
   two failed calls with the same request and the same failure get the same
   response, whether their log write succeeded or not; a failed log write is
   not raised, appends nothing, and puts its two lines on the console; the
   response carries the failure-shaped result of the original error. *)
C8_ResponseIgnoresLogOutcome ==
    /\ Len(console) = 2 * Cardinality(FailedLogging)
    /\ \A i \in Inv :
          (Done(i) /\ outcome[i].transport = "raised") =>
              /\ ~response[i].escaped
              /\ ~IsError(i)
              /\ FailureShaped(result[i])
              /\ result[i].error = outcome[i].error.message
              /\ Payload(i).enc = "json" =>
                    Field(Payload(i).doc, "error") = outcome[i].error.message
              /\ ~outcome[i].writable => appended[i] = <<>>
    /\ \A i, j \in Inv :
          (/\ Done(i) /\ Done(j)
           /\ outcome[i].transport = "raised" /\ outcome[j].transport = "raised"
           /\ req[i] = req[j]
           /\ outcome[i].error = outcome[j].error) =>
              /\ response[i] = response[j]
              /\ result[i] = result[j]

\* the same failed call twice, logged once and not logged once
C8_Witness ==
    \E i, j \in Inv :
        /\ Done(i) /\ Done(j)
        /\ outcome[i].transport = "raised" /\ outcome[j].transport = "raised"
        /\ req[i] = req[j]
        /\ outcome[i].error = outcome[j].error
        /\ outcome[i].writable /\ ~outcome[j].writable
        /\ response[i] = response[j]
        /\ console # <<>>

----------------------------------------------------------------------------
\* Whether the handler accepts the arguments of i: an object that is no array
\* (absent arguments read as an empty object) and, for api_request, a method
\* that is a string
Accepted(i) ==
    /\ ArgsOf(i).t = "object"
    /\ req[i].name = "api_request" => Get(ArgsOf(i), "method").t = "string"

(* C9: an invocation makes at most one outbound network call: exactly one once
   it is dispatched with a known tool and accepted arguments, none otherwise;
   a call that failed has still been made once only. *)
C9_AtMostOneCall ==
    \A i \in Inv :
        /\ netCalls[i] \in {0, 1}
        /\ pc[i] = "idle" => netCalls[i] = 0
        /\ pc[i] # "idle" =>
              (netCalls[i] = 1 <=> (req[i].name \in ToolNames /\ Accepted(i)))
        /\ (Done(i) /\ outcome[i].transport = "raised") => netCalls[i] = 1

\* a failed call, made once
C9_Witness ==
    \E i \in Inv :
        /\ Done(i)
        /\ outcome[i].transport = "raised"
        /\ netCalls[i] = 1

----------------------------------------------------------------------------
\* The format the caller asked for
RequestedFormat(i) == Get(ArgsOf(i), "format")

(* C10: the requested format is respected on every path: without a format the
   payload is JSON, with format "csv" the payload is a CSV document, for
   successes and for errors alike. *)
C10_FormatRespected ==
    \A i \in Inv :
        Returned(i) =>
            /\ RequestedFormat(i) = Undefined => Payload(i).enc = "json"
            /\ RequestedFormat(i) = Str("csv") => Payload(i).enc = "csv"

----------------------------------------------------------------------------
(* What the claims about the CSV document speak about *)

\* The lines of a text: the pieces between line breaks
RECURSIVE Lines(_)
Lines(text) ==
    IF ~Includes(text, NL) THEN <<text>>
    ELSE LET k == CHOOSE j \in 1..Len(text) :
                     /\ CharAt(text, j) = NL
                     /\ \A h \in 1..(j - 1) : CharAt(text, h) # NL
         IN  <<SubSeq(text, 1, k - 1)>> \o Lines(SubSeq(text, k + 1, Len(text)))

\* An invocation of one of the five tools that asked for CSV and was answered
CsvAnswered(i) ==
    /\ Returned(i)
    /\ req[i].name \in ToolNames
    /\ RequestedFormat(i) = Str("csv")

\* An answered invocation whose payload is a CSV document built from a result
CsvOf(i) == Returned(i) /\ HasResult(i) /\ Payload(i).enc = "csv"

\* The table of a CSV payload: its lines after the metadata comment line
Table(i) == Tail(Lines(Payload(i).doc))

FixedHeader == "success,method,url,status,statusText,responseTime,error,code,headers,data,requestData"

(* C11: the CSV document returned to a call of a tool with format "csv"
   contains the fixed header success,method,url,status,statusText,
   responseTime,error,code,headers,data,requestData followed by exactly one
   data row. *)
C11_FixedCsvHeader ==
    \A i \in Inv :
        (CsvAnswered(i) /\ CsvOf(i)) =>
            /\ \E k \in 1..Len(Lines(Payload(i).doc)) :
                  /\ Lines(Payload(i).doc)[k] = FixedHeader
                  /\ Len(Lines(Payload(i).doc)) = k + 1

----------------------------------------------------------------------------
\* Whether the outbound call of i carried a body: a POST, PUT or PATCH with
\* non-empty data handed to the transport
CarriedBody(i) ==
    /\ call[i].sent.method \in {"post", "put", "patch"}
    /\ Truthy(call[i].sent.data)

(* C12: the result of a call has requestData only when the outbound call
   carried a body (POST, PUT or PATCH with non-empty data), and requestData is
   then exactly the data that was sent; the result of any other call has no
   requestData. *)
C12_RequestDataOnlyWhenBodySent ==
    \A i \in Inv :
        (Done(i) /\ HasResult(i)) =>
            /\ "requestData" \in DOMAIN result[i] <=> CarriedBody(i)
            /\ CarriedBody(i) => result[i].requestData = call[i].sent.data

----------------------------------------------------------------------------
(* C13: a successful call, whose two timestamps are both present, reports
   responseTime = endTime - startTime in whole milliseconds, 0 included when
   the two are equal; the sentinel "N/A" stands only for a missing timestamp. *)
C13_ResponseTimeIsDifference ==
    \A i \in Inv :
        (Done(i) /\ outcome[i].transport = "returned") =>
            /\ result[i].responseTime = Num(outcome[i].elapsed)
            /\ result[i].responseTime # Str("N/A")

----------------------------------------------------------------------------
\* A non-empty string
NonEmptyText(v) == v.t = "string" /\ v.v # ""

(* C14: whatever failure the transport raised, with an empty or a missing
   message and with or without a code, the result built from it has
   success=false, a non-empty error and a non-empty code, the code being the
   failure's own when it has one and UNKNOWN_ERROR otherwise. *)
C14_FailureHasErrorAndCode ==
    \A i \in Inv :
        (Done(i) /\ outcome[i].transport = "raised") =>
            /\ result[i].success = Bool(FALSE)
            /\ NonEmptyText(result[i].error)
            /\ NonEmptyText(result[i].code)
            /\ result[i].code = (IF outcome[i].error.code # Undefined
                                 THEN outcome[i].error.code
                                 ELSE Str("UNKNOWN_ERROR"))

----------------------------------------------------------------------------
\* Whether a result carries usable body data
UsableData(r) == Truthy(Field(r, "data"))

\* Whether a result has a non-empty error text
HasErrorText(r) == Truthy(Field(r, "error"))

\* The error,code,message table of a result: the error text, the code and the
\* error text again
ErrorTable(r) ==
    <<"error,code,message",
      Join(<<escapeCsvValue(r.error), escapeCsvValue(r.code),
             escapeCsvValue(r.error)>>, ",")>>

\* The success-shaped result with the fields of the failure-shaped result r
SuccessCounterpart(r) ==
    [k \in DOMAIN r \ {"error", "code"} |->
       IF k = "success" THEN Bool(TRUE) ELSE r[k]]

(* C15 as stated: the CSV document of a failure-shaped result is the
   error,code,message table only when the result has no usable body data; a
   failure-shaped result with body data from an HTTP response is projected
   from its data by the rules of a success-shaped result. *)
C15_ErrorTableOnlyWithoutBody ==
    \A i \in Inv :
        (CsvOf(i) /\ FailureShaped(result[i])) =>
            IF UsableData(result[i])
            THEN Table(i) = Tail(Lines(toCsv(SuccessCounterpart(result[i])).value))
            ELSE Table(i) = ErrorTable(result[i])

(* C15 as amended: the CSV document of every result that has a non-empty error
   text is the metadata comment line followed by the error,code,message table
   (error text, code, error text again), whether or not the result carries
   body data from an HTTP response: that data is not projected.  A result
   without error text gets no error table; a failure-shaped result whose error
   text is empty or missing is rendered exactly as its success-shaped
   counterpart. *)
C15_ErrorTable ==
    \A i \in Inv :
        CsvOf(i) =>
            /\ HasErrorText(result[i]) =>
                  /\ FailureShaped(result[i])
                  /\ Table(i) = ErrorTable(result[i])
            /\ ~HasErrorText(result[i]) =>
                  /\ Table(i)[1] # "error,code,message"
                  /\ FailureShaped(result[i]) =>
                        Payload(i).doc = toCsv(SuccessCounterpart(result[i])).value

\* an HTTP failure that carried body data, answered with the error table
C15_Witness ==
    \E i \in Inv :
        /\ CsvOf(i)
        /\ outcome[i].transport = "raised"
        /\ CarriedResponse(i)
        /\ UsableData(result[i])
        /\ HasErrorText(result[i])
        /\ Table(i) = <<"error,code,message",
                        "Request failed with status code 404,ERR_BAD_REQUEST,Request failed with status code 404">>

----------------------------------------------------------------------------
\* A non-empty sequence of mappings
SeqOfMappings(d) ==
    /\ d.t = "array"
    /\ Len(d.items) > 0
    /\ \A e \in 1..Len(d.items) : d.items[e].t = "object"

\* The keys of all the elements, element after element
RECURSIVE AllKeys(_)
AllKeys(items) ==
    IF Len(items) = 0 THEN <<>> ELSE items[1].keys \o AllKeys(Tail(items))

\* The union of the keys in first-seen order: every key at its first position
UnionKeys(items) ==
    LET all == AllKeys(items)
        first == SelectSeq([p \in 1..Len(all) |-> p],
                           LAMBDA p : \A q \in 1..(p - 1) : all[q] # all[p])
    IN  [j \in 1..Len(first) |-> all[first[j]]]

\* One line of cells
Row(cells) == Join(cells, ",")

\* The table of a sequence of mappings: the header row of the union of keys,
\* then one row per element, an absent key giving an empty cell
UnionTable(items) ==
    LET header == UnionKeys(items)
    IN  <<Row([h \in 1..Len(header) |-> escapeCsvValue(Str(header[h]))])>>
        \o [e \in 1..Len(items) |->
              Row([h \in 1..Len(header) |->
                     escapeCsvValue(Get(items[e], header[h]))])]

\* The table toCsv falls back to
FallbackTable(r) ==
    <<"status,method,url",
      Row(<<escapeCsvValue(Field(r, "status")), escapeCsvValue(Field(r, "method")),
            escapeCsvValue(Field(r, "url"))>>)>>

\* A CSV payload built from a success-shaped result
CsvSuccess(i) == CsvOf(i) /\ SuccessShaped(result[i])

(* C16 as stated: for a success-shaped result whose data is a non-empty
   sequence of mappings, the header row of the table is the union of the keys
   of all elements in first-seen order and the table has one data row per
   element, in element order, each cell being the element's value for the
   header key or empty when the element lacks the key. *)
C16_UnionHeaderRowPerElement ==
    \A i \in Inv :
        (CsvSuccess(i) /\ SeqOfMappings(result[i].data)) =>
            /\ Table(i) = UnionTable(result[i].data.items)
            /\ Len(Table(i)) = 1 + Len(result[i].data.items)

(* C16 as amended: the same, provided at least one element has a key; when
   every element of the sequence is an empty mapping there is no header and no
   row per element, and the table is the status,method,url fallback. *)
C16_ArrayProjection ==
    \A i \in Inv :
        (CsvSuccess(i) /\ SeqOfMappings(result[i].data)) =>
            IF UnionKeys(result[i].data.items) # <<>>
            THEN /\ Table(i) = UnionTable(result[i].data.items)
                 /\ Len(Table(i)) = 1 + Len(result[i].data.items)
            ELSE Table(i) = FallbackTable(result[i])

\* the body [{x:1},{y:2}] projected to the header x,y and the rows 1, and ,2
C16_Witness ==
    \E i \in Inv :
        /\ CsvSuccess(i)
        /\ result[i].data = Arr(<<Obj(<<"x">>, <<Num(1)>>), Obj(<<"y">>, <<Num(2)>>)>>)
        /\ Table(i) = <<"x,y", "1,", ",2">>

----------------------------------------------------------------------------
\* A single non-empty mapping
NonEmptyMapping(d) == d.t = "object" /\ Len(d.keys) > 0

\* The table of a single mapping: its keys, then its values
MappingTable(d) ==
    <<Row([h \in 1..Len(d.keys) |-> escapeCsvValue(Str(d.keys[h]))]),
      Row([h \in 1..Len(d.vals) |-> escapeCsvValue(d.vals[h])])>>

\* Whether the record a JSON parser reads back from a payload equals the
\* result it was written from, field for field
ParsesBackTo(doc, r) ==
    \A k \in DOMAIN doc \cup DOMAIN r : Field(doc, k) = Field(r, k)

(* C17: for a success-shaped result whose data is a single non-empty mapping,
   the CSV table is the header row of the mapping's keys in insertion order
   and one data row of the corresponding values ({a:1,b:2} gives a,b and
   1,2); serialized as JSON, the same result parses back to a record equal to
   the result, field for field. *)
C17_MappingProjectionAndJsonRoundTrip ==
    \A i \in Inv :
        (Returned(i) /\ HasResult(i) /\ SuccessShaped(result[i])
           /\ NonEmptyMapping(result[i].data)) =>
            /\ Payload(i).enc = "csv" =>
                  /\ Table(i) = MappingTable(result[i].data)
                  /\ Len(Table(i)) = 2
            /\ Payload(i).enc = "json" =>
                  /\ ParsesBackTo(Payload(i).doc, result[i])
                  /\ Payload(i).doc.data = result[i].data

\* the body {a:1,b:2} returned to two calls, one answered in CSV with the
\* table a,b / 1,2 and one answered in JSON with the body unchanged
C17_Witness ==
    \E i, j \in Inv :
        /\ Returned(i) /\ Returned(j)
        /\ HasResult(i) /\ HasResult(j)
        /\ SuccessShaped(result[i]) /\ SuccessShaped(result[j])
        /\ result[i].data = Obj(<<"a", "b">>, <<Num(1), Num(2)>>)
        /\ result[j].data = result[i].data
        /\ Payload(i).enc = "csv"
        /\ Table(i) = <<"a,b", "1,2">>
        /\ Payload(j).enc = "json"
        /\ Payload(j).doc.data = Obj(<<"a", "b">>, <<Num(1), Num(2)>>)
        /\ Payload(j).doc.status = Num(200)

----------------------------------------------------------------------------
\* The text of a CSV payload after its metadata comment line
TableText(i) == Join(Table(i), NL)

\* A scalar body: a string or a number
Scalar(d) == d.t \in {"string", "number"}

(* C18: for a success-shaped result whose data is a scalar string or number,
   the number 0 and the empty string included, the CSV table is the header
   value and the scalar rendered as the single cell. *)
C18_ScalarValueTable ==
    \A i \in Inv :
        (CsvSuccess(i) /\ Scalar(result[i].data)) =>
            TableText(i) = "value" \o NL \o escapeCsvValue(result[i].data)

----------------------------------------------------------------------------
\* Data from which step 3 has nothing to build: an empty sequence, an empty
\* mapping, or no data at all
NoTableContent(d) == d \in {Arr(<<>>), EmptyObject, Null, Undefined}

(* C19: the CSV table of a success-shaped result is the status,method,url
   fallback, with one row of those three values, exactly when its data is an
   empty sequence, an empty mapping or absent; for every other data value the
   table is derived from the data. *)
C19_FallbackExactlyWhenNoData ==
    \A i \in Inv :
        CsvSuccess(i) =>
            (TableText(i) = Join(FallbackTable(result[i]), NL)
               <=> NoTableContent(result[i].data))

----------------------------------------------------------------------------
(* Reading a CSV text back: the rows of raw cells, where a comma or a line
   break inside a quoted cell does not end the cell *)
\* Where the raw cell that starts at pos ends: a quoted cell at its closing
\* quote (a quote that is not the first of a pair), any other cell before the
\* next comma or line break
CellEnd(text, pos) ==
    LET quotesIn(j) == Cardinality({ h \in (pos + 1)..j : CharAt(text, h) = Quote })
        closing == { j \in (pos + 1)..Len(text) :
                       /\ CharAt(text, j) = Quote
                       /\ quotesIn(j) % 2 = 1
                       /\ (j = Len(text) \/ CharAt(text, j + 1) # Quote) }
        breaks == { j \in pos..Len(text) : CharAt(text, j) \in {",", NL} }
    IN  IF pos <= Len(text) /\ CharAt(text, pos) = Quote
        THEN IF closing = {} THEN Len(text)
             ELSE CHOOSE j \in closing : \A h \in closing : j <= h
        ELSE IF breaks = {} THEN Len(text)
             ELSE (CHOOSE j \in breaks : \A h \in breaks : j <= h) - 1

RECURSIVE ParseCsv(_, _, _, _)
ParseCsv(text, pos, row, rows) ==
    LET last == CellEnd(text, pos)
        cell == SubSeq(text, pos, last)
    IN  IF last >= Len(text) THEN Append(rows, Append(row, cell))
        ELSE IF CharAt(text, last + 1) = NL
        THEN ParseCsv(text, last + 2, <<>>, Append(rows, Append(row, cell)))
        ELSE ParseCsv(text, last + 2, Append(row, cell), rows)

CsvRows(text) == ParseCsv(text, 1, <<>>, <<>>)

\* a pair of double quotes read back as one
RECURSIVE Undouble(_)
Undouble(s) ==
    IF Len(s) = 0 THEN ""
    ELSE IF Len(s) >= 2 /\ CharAt(s, 1) = Quote /\ CharAt(s, 2) = Quote
    THEN Quote \o Undouble(SubSeq(s, 3, Len(s)))
    ELSE CharAt(s, 1) \o Undouble(Tail(s))

Quoted(cell) ==
    Len(cell) >= 2 /\ CharAt(cell, 1) = Quote /\ CharAt(cell, Len(cell)) = Quote

\* The text a CSV reader gets from a raw cell
Decode(cell) ==
    IF Quoted(cell) THEN Undouble(SubSeq(cell, 2, Len(cell) - 1)) ELSE cell

\* A text that cannot stand in a cell as it is
NeedsQuoting(text) ==
    Includes(text, ",") \/ Includes(text, NL) \/ Includes(text, Quote)

\* The number of double quotes in a text
CountQuotes(s) == Cardinality({ h \in 1..Len(s) : CharAt(s, h) = Quote })

\* The escaping rule, of a value and the cell written for it
ObeysRule(value, cell) ==
    IF IsNullish(value) THEN cell = ""
    ELSE IF NeedsQuoting(ToStr(value))
    THEN /\ Quoted(cell)
         /\ Decode(cell) = ToStr(value)
         /\ CountQuotes(cell) = 2 + 2 * CountQuotes(ToStr(value))
    ELSE cell = ToStr(value)

\* A raw cell of a document that is written by the rule
WellFormedCell(cell) ==
    IF Quoted(cell)
    THEN /\ NeedsQuoting(Decode(cell))
         /\ CountQuotes(cell) = 2 + 2 * CountQuotes(Decode(cell))
    ELSE ~NeedsQuoting(cell)

\* The values inside a body: the elements, the keys and the values
Inside(d) ==
    CASE d.t = "object" ->
            { Str(d.keys[k]) : k \in 1..Len(d.keys) }
              \cup { d.vals[k] : k \in 1..Len(d.vals) }
      [] d.t = "array" ->
            { d.items[e] : e \in 1..Len(d.items) }
              \cup UNION { { Str(d.items[e].keys[k]) : k \in 1..Len(d.items[e].keys) }
                             \cup { d.items[e].vals[k] : k \in 1..Len(d.items[e].vals) }
                           : e \in { x \in 1..Len(d.items) : d.items[x].t = "object" } }
      [] OTHER -> {}

\* Every value of a result that toCsv may turn into a cell
CellValues(r) ==
    { r[k] : k \in DOMAIN r } \cup Inside(Field(r, "data")) \cup {Undefined, Null}

(* C20: every cell of a CSV document obeys the escaping rule: null and
   undefined give the empty cell; a value whose string form contains a comma,
   a line break or a double quote is wrapped in double quotes with every
   double quote inside doubled (a,b"c becomes "a,b""c"); every other value
   is written as its plain string form, unquoted. *)
C20_CellEscaping ==
    /\ escapeCsvValue(Str("a,b\"c")) = "\"a,b\"\"c\""
    /\ \A i \in Inv :
          CsvOf(i) =>
              /\ \A v \in CellValues(result[i]) : ObeysRule(v, escapeCsvValue(v))
              /\ LET rows == CsvRows(TableText(i))
                  IN  \A r \in 1..Len(rows) : \A c \in 1..Len(rows[r]) :
                          WellFormedCell(rows[r][c])

\* the body a,b"c answered as the cell "a,b""c"
C20_Witness ==
    \E i \in Inv :
        /\ CsvSuccess(i)
        /\ result[i].data = Str("a,b\"c")
        /\ CsvRows(TableText(i)) = <<<<"value">>, <<"\"a,b\"\"c\"">>>>

----------------------------------------------------------------------------
(* What the claims about the functions applied on their own speak about *)

\* The function fn has been applied and has returned or thrown
Applied(fn) == probe.fn = fn /\ answer # NoAnswer

\* The function fn has been applied and has returned
AppliedAndReturned(fn) == Applied(fn) /\ ~answer.threw

(* C21: toCsv lets no exception escape, whatever it is given: when an
   exception occurs inside the projection (malformed data, or a malformed
   result such as null) it returns the fallback table error,code,message
   with the marker CSV Conversion Error and the message of the exception. *)
C21_ToCsvNeverThrows ==
    Applied("toCsv") =>
        /\ ~answer.threw
        /\ toCsvTry(probe.result).threw =>
              LET table == Tail(Lines(answer.value))
              IN  /\ Len(table) = 2
                  /\ table[1] = "error,code,message"
                  /\ table[2] = "CSV Conversion Error,CONVERSION_ERROR,"
                                  \o escapeCsvValue(toCsvTry(probe.result).error.message)

----------------------------------------------------------------------------
\* JSON.stringify(value) of a value: the JSON string the format document asks
\* for in a cell whose value is an object or an array
RECURSIVE JsonText(_)
JsonText(v) ==
    CASE v.t = "string" -> Quote \o v.v \o Quote
      [] v.t = "array" ->
            "[" \o Join([i \in 1..Len(v.items) |-> JsonText(v.items[i])], ",") \o "]"
      [] v.t = "object" ->
            "{" \o Join([i \in 1..Len(v.keys) |->
                           Quote \o v.keys[i] \o Quote \o ":" \o JsonText(v.vals[i])],
                        ",") \o "}"
      [] v.t \in {"undefined", "nan"} -> "null"
      [] OTHER -> ToStr(v)

\* The text a reader of the CSV document should get from the cell of a value
ClaimedCellText(v) ==
    IF v.t \in {"object", "array"} THEN JsonText(v)
    ELSE IF IsNullish(v) THEN ""
    ELSE ToStr(v)

\* toCsv was applied to a success-shaped result whose data is a single
\* non-empty mapping, and projected it
MappingProjected ==
    /\ AppliedAndReturned("toCsv")
    /\ "data" \in DOMAIN probe.result
    /\ ~HasErrorText(probe.result)
    /\ NonEmptyMapping(probe.result.data)
    /\ ~toCsvTry(probe.result).threw

\* The rows of raw cells of the table toCsv returned
AnswerRows == CsvRows(Join(Tail(Lines(answer.value)), NL))

(* C22: in the CSV document a cell whose value is an object or an array is
   the JSON string of that value, and a cell whose value is a primitive is the
   value stringified as it is. *)
C22_NestedCellsAsJson ==
    MappingProjected =>
        /\ Len(AnswerRows) = 2
        /\ \A h \in 1..Len(probe.result.data.vals) :
              Decode(AnswerRows[2][h]) = ClaimedCellText(probe.result.data.vals[h])

----------------------------------------------------------------------------
\* The step in which invocation i, whose network call failed, returns
ReturnsFailure(i) ==
    /\ pc[i] = "awaiting"
    /\ pc'[i] = "done"
    /\ outcome'[i].transport = "raised"

(* C23: on a failed network call the log append, or the attempt that falls
   through to the console, happens before the response of that invocation is
   returned: the step that returns the failure response has already extended
   the file by the entry (or reported on the console), and nothing is written
   for an invocation after its response was returned. *)
C23_LogBeforeResponse ==
    [][\A i \in Inv :
         /\ Done(i) => appended'[i] = appended[i]
         /\ ReturnsFailure(i) =>
               IF outcome'[i].writable
               THEN /\ Len(appended'[i]) = 1
                    /\ logFile' = logFile \o LogLine(appended'[i][1])
                    /\ console' = console
               ELSE /\ appended'[i] = <<>>
                    /\ logFile' = logFile
                    /\ Len(console') = Len(console) + 2]_vars

\* A failed invocation has returned its response and its entry, written by
\* the returning step, is in the file; another one fell through to the console
C23_Witness ==
    \E i \in Inv, j \in Inv :
        /\ i # j /\ Done(i) /\ Done(j)
        /\ outcome[i].transport = "raised" /\ outcome[i].writable
        /\ appended[i] # <<>> /\ JsonStringify(appended[i][1]) \in EntriesInFile
        /\ outcome[j].transport = "raised" /\ ~outcome[j].writable
        /\ console # <<>>

----------------------------------------------------------------------------
\* What a step added at the end of the log file
Added == SubSeq(logFile', Len(logFile) + 1, Len(logFile'))

\* One pretty-printed JSON entry followed by a line of 80 "=" characters
OneEntry(blocks) ==
    /\ Len(blocks) = 4
    /\ \E i \in Inv : \E k \in 1..Len(appended'[i]) :
          blocks[1] = JsonStringify(appended'[i][k])
    /\ blocks[2] = NL
    /\ Len(blocks[3]) = 80
    /\ \A k \in 1..80 : SubSeq(blocks[3], k, k) = "="
    /\ blocks[4] = NL

\* The step in which invocation i returns a success-shaped result
ReturnsSuccess(i) ==
    /\ pc[i] # "done"
    /\ pc'[i] = "done"
    /\ result'[i] # NoResult
    /\ result'[i].success = Bool(TRUE)

(* C24: the log file is append-only: every step leaves it unchanged or
   extends it by exactly one pretty-printed JSON entry followed by a
   separator line of 80 "=" characters; what was written before is kept as
   it is, and a successful invocation leaves the file unchanged. *)
C24_AppendOnly ==
    [][/\ Len(logFile') >= Len(logFile)
       /\ SubSeq(logFile', 1, Len(logFile)) = logFile
       /\ Added = <<>> \/ OneEntry(Added)
       /\ \A i \in Inv : ReturnsSuccess(i) => logFile' = logFile]_vars

\* Two failed invocations have each appended their entry to the file
C24_Witness ==
    /\ Len(logFile) = 8
    /\ \A i \in Inv : Done(i) /\ Len(appended[i]) = 1
    /\ logFile[1] \in { JsonStringify(appended[i][1]) : i \in Inv }
    /\ logFile[5] \in { JsonStringify(appended[i][1]) : i \in Inv }

----------------------------------------------------------------------------
\* A block of the file as printed, so that JSON texts and plain lines compare
Printed(block) == ToString(block)

\* The JSON texts of the entries the invocations appended
AppendedTexts ==
    UNION { { Printed(JsonStringify(appended[i][k])) : k \in 1..Len(appended[i]) } :
            i \in Inv }

(* C25: when invocations overlap and more than one of them fails, their log
   entries are never interleaved: the file is a concatenation of whole
   entries, the JSON text of each immediately followed by its own separator
   line. *)
C25_WholeEntries ==
    /\ Len(logFile) = 4 * AppendedUpTo(MaxInv)
    /\ \A k \in 1..Len(logFile) :
          CASE k % 4 = 1 -> Printed(logFile[k]) \in AppendedTexts
            [] k % 4 = 3 -> Printed(logFile[k]) = Printed(Separator)
            [] OTHER -> Printed(logFile[k]) = Printed(NL)

\* Two invocations overlapped and both failed: the one dispatched second was
\* rejected and logged first, so the entries stand in the file in the reverse
\* of the order of dispatch
C25_Witness ==
    /\ universe = "compact"
    /\ Done(1) /\ Done(2)
    /\ outcome[1].transport = "raised" /\ outcome[2].transport = "raised"
    /\ Len(appended[1]) = 1 /\ Len(appended[2]) = 1
    /\ appended[1] # appended[2]
    /\ Len(logFile) = 8
    /\ logFile[1] = JsonStringify(appended[2][1])
    /\ logFile[5] = JsonStringify(appended[1][1])

----------------------------------------------------------------------------
\* The input of the applied formatter is malformed: no response or no failure
\* object at all, or a response without its request configuration
MalformedInput ==
    \/ /\ probe.fn = "formatApiResponse"
       /\ NoObject(probe.response) \/ NoObject(probe.response.config)
    \/ /\ probe.fn = "formatErrorResponse"
       /\ NoObject(probe.error)

(* C26: neither formatApiResponse nor formatErrorResponse lets an exception
   escape: for a malformed input (a response without a config, a null
   failure object, circular data) the function returns a failure-shaped
   result instead of throwing. *)
C26_FormattersNeverThrow ==
    (Applied("formatApiResponse") \/ Applied("formatErrorResponse")) =>
        /\ ~answer.threw
        /\ MalformedInput => FailureShaped(answer.value)

----------------------------------------------------------------------------
(* C27: a format argument with any value other than exactly "csv" (absent,
   "json", or an unlisted value such as "xml") is accepted without a
   validation error and yields the JSON payload; only "csv" selects the CSV
   projector. *)
C27_OnlyCsvSelectsCsv ==
    \A i \in Inv :
        /\ Returned(i) =>
              (Payload(i).enc = "csv" => RequestedFormat(i) = Str("csv"))
        /\ (Done(i) /\ req[i].name \in ToolNames /\ Accepted(i)
              /\ RequestedFormat(i) # Str("csv")) =>
              /\ netCalls[i] = 1
              /\ Returned(i)
              /\ HasResult(i)
              /\ ~IsError(i)
              /\ Payload(i) = JsonStringify(result[i])

\* A call that asked for the unlisted format "xml" went out to the network and
\* was answered with the JSON payload of its result
C27_Witness ==
    \E i \in Inv :
        /\ Returned(i)
        /\ RequestedFormat(i) = Str("xml")
        /\ outcome[i].transport = "returned"
        /\ netCalls[i] = 1
        /\ Payload(i).enc = "json"
        /\ Payload(i).doc.success = Bool(TRUE)

----------------------------------------------------------------------------
(* What the claim about the three variants of the server speaks about *)

\* Absent, or a mapping whose values are all strings
StringValued(v) ==
    v = Undefined \/ (v.t = "object" /\ \A k \in 1..Len(v.vals) : v.vals[k].t = "string")

\* A well-formed call: a known operation, an argument object with an absolute
\* url, string-valued headers and params, an enumerated method where the
\* operation takes one, and no format or the format json
WellFormedCall(i) ==
    /\ req[i].name \in ToolNames
    /\ req[i].args.t = "object"
    /\ Get(req[i].args, "url").t = "string"
    /\ ParsesAsUrl(Get(req[i].args, "url").v)
    /\ StringValued(Get(req[i].args, "headers"))
    /\ StringValued(Get(req[i].args, "params"))
    /\ req[i].name = "api_request" =>
          /\ Get(req[i].args, "method").t = "string"
          /\ Get(req[i].args, "method").v \in EnumMethods
    /\ RequestedFormat(i) \in {Undefined, Str("json")}

\* The log sink of a variant run on its own, and the file-system outcome that
\* the logging attempt of invocation i met
OwnSink == [file |-> <<>>, dir |-> FALSE, console |-> <<>>]
SameFs(i) ==
    IF "writable" \in DOMAIN outcome[i] /\ outcome[i].writable
    THEN "ok" ELSE "append_fails"

(* C28: the three variants of the server agree on well-formed calls: for an
   invocation of a known operation with valid arguments and the same
   transport outcome, the dispatcher, the strict-validation variant and the
   variant without logging return the same JSON payload and the same isError
   flag, and the dispatcher and the strict-validation variant append the same
   log entry. *)
C28_VariantsAgree ==
    \A i \in Inv :
        (Done(i) /\ WellFormedCall(i)) =>
            LET strict == StrictHandler(req[i], outcome[i], OwnSink, SameFs(i))
                plain == PlainHandler(req[i], outcome[i])
            IN  /\ Returned(i)
                /\ ~strict.threw /\ ~plain.threw
                /\ response[i].value = strict.value
                /\ response[i].value = plain.value
                /\ appended[i] = strict.wrote

\* A well-formed call with a body was rejected by the transport and logged;
\* another one was answered by the transport
C28_Witness ==
    /\ \E i \in Inv :
          /\ Done(i) /\ WellFormedCall(i)
          /\ outcome[i].transport = "raised"
          /\ Len(appended[i]) = 1
          /\ StrictHandler(req[i], outcome[i], OwnSink, SameFs(i)).wrote = appended[i]
    /\ \E i \in Inv :
          /\ Done(i) /\ WellFormedCall(i)
          /\ outcome[i].transport = "returned"
          /\ PlainHandler(req[i], outcome[i]).value = response[i].value

----------------------------------------------------------------------------
\* The table of the document toCsv returned: what follows the metadata row
\* and its line break, read by CSV rules into rows of raw cells
EmittedRows ==
    LET comment == generateMetadataRow(probe.result).value
    IN  CsvRows(SubSeq(answer.value, Len(comment) + 2, Len(answer.value)))

Rectangular(rows) ==
    /\ Len(rows) >= 2
    /\ \A r \in 1..Len(rows) : Len(rows[r]) = Len(rows[1])

\* toCsv was applied to a result without error text whose data is a sequence
\* with at least one key among its elements, and projected the sequence
SequenceProjected ==
    /\ AppliedAndReturned("toCsv")
    /\ "data" \in DOMAIN probe.result
    /\ ~HasErrorText(probe.result)
    /\ probe.result.data.t = "array"
    /\ \E e \in 1..Len(probe.result.data.items) :
          /\ probe.result.data.items[e].t \in {"object", "array"}
          /\ KeysOf(probe.result.data.items[e]) # <<>>
    /\ ~toCsvTry(probe.result).threw

\* The number of elements of the projected sequence that are of kind kinds
ElementsOf(kinds) ==
    Cardinality({ e \in 1..Len(probe.result.data.items) :
                    probe.result.data.items[e].t \in kinds })

(* C29: every table emitted by toCsv is rectangular: counting cells by CSV
   rules, each data row has as many cells as the header row; and the array
   projection emits exactly one data row per mapping-shaped element, skipping
   the elements that are not mappings. *)
C29_RectangularRowPerMapping ==
    AppliedAndReturned("toCsv") =>
        /\ Rectangular(EmittedRows)
        /\ SequenceProjected => Len(EmittedRows) = 1 + ElementsOf({"object"})

(* C29 as amended: every table is rectangular, and the array projection emits
   one data row per element that is an object, a nested sequence included
   (its indices are its keys); only null and primitive elements are
   skipped. *)
C29_RectangularRowPerObject ==
    AppliedAndReturned("toCsv") =>
        /\ Rectangular(EmittedRows)
        /\ SequenceProjected =>
              Len(EmittedRows) = 1 + ElementsOf({"object", "array", "unconvertible"})

\* The sequence [[1,2],{a:1}] projected to three columns and two data rows,
\* the nested sequence giving a row under its indices
C29_Witness ==
    /\ SequenceProjected
    /\ probe.result.data = Arr(<<Arr(<<Num(1), Num(2)>>), Obj(<<"a">>, <<Num(1)>>)>>)
    /\ EmittedRows = <<<<"0", "1", "a">>, <<"1", "2", "">>, <<"", "", "1">>>>

----------------------------------------------------------------------------
\* The metadata row of the result toCsv was applied to, and the text of the
\* table that follows it in the document
MetadataRow == generateMetadataRow(probe.result).value
EmittedTable == SubSeq(answer.value, Len(MetadataRow) + 2, Len(answer.value))

(* C30: for every result, one whose url or error text contains a line break
   or a "|" included, the output of toCsv is exactly one comment line, its
   first line, beginning with "# ", followed on the second line by the header
   row of the table; the metadata fields never spill into further lines. *)
C30_OneCommentLine ==
    AppliedAndReturned("toCsv") =>
        LET lines == Lines(answer.value)
        IN  /\ Len(lines) >= 2
            /\ SubSeq(lines[1], 1, 2) = "# "
            /\ lines[1] = MetadataRow
            /\ lines[2] = Lines(EmittedTable)[1]

====
